---- MODULE Spec2Model ----
(***************************************************************************)
(* cctr: the suite scheduler (crates/cctr/src/runner.rs), the entry point *)
(* (crates/cctr/src/main.rs) and suite discovery (discover.rs) as a state  *)
(* machine.  One worker per suite walks run_suite; the workers send        *)
(* progress events over one mpsc channel to the reporter thread; the       *)
(* Ctrl-C handler and the final exit code belong to main.                  *)
(***************************************************************************)
EXTENDS Integers, Sequences, FiniteSets, TLC

\* ------------------------------------------------------------------ bounds
MaxSuites == 2      \* suites discovered under the test root
MaxFiles == 2       \* regular corpus files of one suite
MaxTests == 2       \* tests of one corpus file
MaxExit == 2        \* largest exit code a command returns
MaxLines == 2       \* most output lines of one test command
MaxLen == 4         \* longest output of a command, in characters
MaxDelimiter == 4   \* longest separator line of a corpus document
MaxConstraints == 3 \* most constraints of one where-section
MaxItems == 2       \* most items of the array a forall ranges over
MaxName == 3        \* longest content of a placeholder, in characters
MaxBlock == 5       \* longest expected block, in lines

\* ------------------------------------------------------- corpus data model

\* ExpectedExit (cctr-corpus): Success | Code(n) | NonZero
Success == [kind |-> "success", n |-> 0]
NonZero == [kind |-> "nonzero", n |-> 0]
Code(n) == [kind |-> "code", n |-> n]
ExpectedExit == {Success, NonZero} \cup {Code(n) : n \in 0..MaxExit}

\* SkipDirective: absent, unconditional, or conditional on a shell command.
\* cond_exit is the exit code of the condition command when it is run.
NoSkip == [present |-> FALSE, condition |-> FALSE, cond_exit |-> 0]
SkipAlways == [present |-> TRUE, condition |-> FALSE, cond_exit |-> 0]
SkipIf(e) == [present |-> TRUE, condition |-> TRUE, cond_exit |-> e]
SkipDirective == {NoSkip, SkipAlways, SkipIf(0), SkipIf(1)}

\* TestCase.  expected is "empty" (exit-only), "literal" (no variables) or
\* "template" (variables declared).  exit_code and output_ok describe what the
\* test's command does when it is run: its exit status, and whether its
\* output equals the expected text (literal) or is accepted by the Matcher
\* (template).  name_matches: the test's name contains the --pattern string.
\* lines: the number of lines the command writes to stdout and stderr.
TestCase == [require : BOOLEAN, skip : SkipDirective, expected_exit : ExpectedExit,
             expected : {"empty", "literal", "template"},
             exit_code : 0..MaxExit, output_ok : BOOLEAN, name_matches : BOOLEAN,
             lines : 0..MaxLines]

Test(req, sk, ee, ex, code, ok) ==
    [require |-> req, skip |-> sk, expected_exit |-> ee, expected |-> ex,
     exit_code |-> code, output_ok |-> ok, name_matches |-> FALSE, lines |-> 1]

Named(t) == [t EXCEPT !.name_matches = TRUE]
Lines(t, n) == [t EXCEPT !.lines = n]

PassT == Test(FALSE, NoSkip, Success, "literal", 0, TRUE)
FailT == Test(FALSE, NoSkip, Success, "literal", 0, FALSE)
ReqFailT == Test(TRUE, NoSkip, Success, "literal", 0, FALSE)
SkipT == Test(FALSE, SkipAlways, Success, "literal", 0, TRUE)

\* A file on disk: whether parse_file returns Ok for it, and the CorpusFile it
\* returns: platform_ok is matches_platform(file_platform) on this host,
\* stem_matches says that the file stem contains the --pattern string.
CorpusFile(ok, platform_ok, file_skip, stem_matches, tests) ==
    [parse_ok |-> ok, platform_ok |-> platform_ok, file_skip |-> file_skip,
     stem_matches |-> stem_matches, tests |-> tests]
File(ok, tests) == CorpusFile(ok, TRUE, NoSkip, FALSE, tests)
BadFile == File(FALSE, <<>>)

\* The injected environment variables, and an environment that has none.
EnvNames == {"CCTR_WORK_DIR", "CCTR_TEST_PATH", "CCTR_FIXTURE_DIR"}
NoEnv == [v \in EnvNames |-> 0]

\* Paths.  Regular corpus files are named by a number (their sort key).
SetupPath == [kind |-> "_setup.txt", n |-> 0]
TeardownPath == [kind |-> "_teardown.txt", n |-> 0]
CorpusPath(n) == [kind |-> "corpus", n |-> n]

\* Suite (discover.rs): the flags, and the directory's content.  dir is the
\* order in which read_dir lists the regular corpus files.
Suite(fx, su, td, setup, dir, content, teardown) ==
    [has_fixture |-> fx, has_setup |-> su, has_teardown |-> td,
     setup |-> setup, dir |-> dir, content |-> content, teardown |-> teardown]

\* ------------------------------------------------------------ sequences
RECURSIVE Insert(_, _)
Insert(x, s) ==
    IF s = <<>> THEN <<x>>
    ELSE IF x <= Head(s) THEN <<x>> \o s
    ELSE <<Head(s)>> \o Insert(x, Tail(s))

RECURSIVE Sort(_)
Sort(s) == IF s = <<>> THEN <<>> ELSE Insert(Head(s), Sort(Tail(s)))

\* A bug: the listing of read_dir is returned as it is, without files.sort().
corpus_files_Unsorted(suite) == suite.dir

\* Suite::corpus_files: the regular files of the directory, sorted by path.
corpus_files(suite) == Sort(suite.dir)


\* ------------------------------------------------------------------ state
VARIABLES
    suites,       \* discover_suites(root): the suites, sorted by name
    sequential,   \* cli.sequential
    pattern,      \* cli.pattern is Some(_)
    stream_output, \* main.rs 86: verbose_level >= 2
    process_env,  \* the environment of the cctr process: who set each CCTR_ variable
    main,         \* main(): "start", "running", "joining" or "exited"
    run,          \* per suite: the local state of its run_suite call
    chan,         \* the mpsc progress channel: events sent and not yet received
    sent,         \* per suite: every event its worker has sent, in order
    rcvd,         \* per suite: the events of that suite the reporter has received
    reporter,     \* the reporter thread: "idle", "running" or "finished"
    interrupted,  \* the process-wide cancellation flag
    signals,      \* number of Ctrl-C signals the handler has handled
    exit_code,    \* the process exit code, -1 while the process is alive
    input,        \* the argument of a function that is checked on its own
    output        \* its result, Pending before the call

\* The state of the scheduler, and the state of a function call.
sched == <<suites, sequential, pattern, stream_output, process_env, main, run, chan, sent,
           rcvd, reporter, interrupted, signals, exit_code>>
call == <<input, output>>
Pending == [done |-> FALSE]
vars == <<sched, call>>

SuiteIds == 1..Len(suites)

\* -------------------------------------------------------------- run_test

\* A bug: a condition that fails (exits non-zero) skips the test.
should_skip_OnFailure(skip) == IF skip.condition THEN skip.cond_exit # 0 ELSE TRUE

\* should_skip: Some(reason) iff there is no condition or the condition
\* command exits with 0.
should_skip(skip) == IF skip.condition THEN skip.cond_exit = 0 ELSE TRUE

\* A bug: the output is compared even when the expected block is empty.
Judge_OutputAlways(test) == test.output_ok

\* run_test, the verdict: (passed, error, expected_output) of lines 406-421.
Judge(test) ==
    IF test.expected # "template"
    THEN IF test.expected = "empty"
         THEN test.exit_code = 0
         ELSE test.output_ok
    ELSE test.output_ok

\* run_test: the TestResult, and the shell commands it executed.
run_test(test) ==
    IF test.skip.present /\ should_skip(test.skip)
    THEN [result |-> [test |-> test, passed |-> TRUE, skipped |-> TRUE,
                      skip_reason |-> "skipped", has_output |-> FALSE],
          cmds |-> IF test.skip.condition THEN <<"cond">> ELSE <<>>]
    ELSE [result |-> [test |-> test, passed |-> Judge(test), skipped |-> FALSE,
                      skip_reason |-> "none", has_output |-> TRUE],
          cmds |-> IF test.skip.present THEN <<"cond", "cmd">> ELSE <<"cmd">>]

\* ------------------------------------------------------- results' verdicts
RECURSIVE AllTrue(_)
AllTrue(bs) == IF bs = <<>> THEN TRUE ELSE Head(bs) /\ AllTrue(Tail(bs))

\* FileResult::passed
FilePassed(fr) ==
    ~fr.parse_error /\ AllTrue([i \in 1..Len(fr.results) |-> fr.results[i].passed])

\* A bug: the suite's verdict forgets setup_error.
SuitePassed_IgnoresSetupError(st) ==
    AllTrue([i \in 1..Len(st.file_results) |-> FilePassed(st.file_results[i])])

\* SuiteResult::passed
SuitePassed(st) ==
    st.setup_error = "none"
    /\ AllTrue([i \in 1..Len(st.file_results) |-> FilePassed(st.file_results[i])])

\* ------------------------------------------------------------- run_suite

\* The state of a run_suite call before it starts.
Idle ==
    [phase |-> "idle", pc |-> "call", fi |-> 0, ti |-> 0, li |-> 0, results |-> <<>>,
     skip_all |-> "none", file_results |-> <<>>, setup_error |-> "none",
     sandbox |-> "absent", log |-> <<>>]

\* A bug: the TempDir is leaked (kept) when run_suite returns.
Return_KeepsSandbox(st) ==
    [st EXCEPT !.phase = "done", !.pc = "call", !.fi = 0, !.ti = 0, !.li = 0,
               !.results = <<>>, !.skip_all = "none"]

\* return SuiteResult {..}: the TempDir is dropped with the frame.
Return(st) ==
    [st EXCEPT !.phase = "done", !.pc = "call", !.fi = 0, !.ti = 0, !.li = 0,
               !.results = <<>>,
               !.skip_all = "none",
               !.sandbox = IF @ = "exists" THEN "deleted" ELSE @]

Goto(st, nx) ==
    IF nx.phase = "done" THEN Return(st)
    ELSE [st EXCEPT !.phase = nx.phase, !.fi = nx.fi, !.pc = "call", !.ti = 0, !.li = 0,
                    !.results = <<>>, !.skip_all = "none"]

\* Where run_suite goes next, from each of its sections.
AfterFiles(suite) ==
    IF suite.has_teardown THEN [phase |-> "teardown", fi |-> 0]
    ELSE [phase |-> "done", fi |-> 0]

AfterFile(suite, i) ==
    IF i < Len(corpus_files(suite)) THEN [phase |-> "files", fi |-> i + 1]
    ELSE AfterFiles(suite)

AfterSetup(suite) == AfterFile(suite, 0)

AfterFixture(suite) ==
    IF suite.has_setup THEN [phase |-> "setup", fi |-> 0] ELSE AfterSetup(suite)

AfterTempDir(suite) ==
    IF suite.has_fixture THEN [phase |-> "fixture", fi |-> 0] ELSE AfterFixture(suite)

\* The file the current run_corpus_file call is about.
CurPath(suite, st) ==
    CASE st.phase = "setup" -> SetupPath
      [] st.phase = "teardown" -> TeardownPath
      [] OTHER -> CorpusPath(corpus_files(suite)[st.fi])

CurFile(suite, st) ==
    CASE st.phase = "setup" -> suite.setup
      [] st.phase = "teardown" -> suite.teardown
      [] OTHER -> suite.content[corpus_files(suite)[st.fi]]

\* A bug: the verdict of the setup file is not looked at.
SetupPassed_Always(fr) == TRUE

\* Did the setup file pass (line 631)?
SetupPassed(fr) == FilePassed(fr)

\* A bug: a regular file that failed aborts the suite as a failed setup does,
\* so teardown is not reached.
FileDone_AbortsOnFailure(suite, st, fr) ==
    LET st1 == [st EXCEPT !.file_results = Append(@, fr)] IN
    CASE st.phase = "setup" ->
            IF ~SetupPassed(fr)
            THEN Return([st1 EXCEPT !.setup_error = "Setup failed"])
            ELSE Goto(st1, AfterSetup(suite))
      [] st.phase = "files" ->
            IF ~FilePassed(fr) THEN Return(st1) ELSE Goto(st1, AfterFile(suite, st.fi))
      [] OTHER -> Return(st1)

\* A bug: a parse error in a regular file ends the loop over the files.
FileDone_StopsAtParseError(suite, st, fr) ==
    LET st1 == [st EXCEPT !.file_results = Append(@, fr)] IN
    CASE st.phase = "setup" ->
            IF ~SetupPassed(fr)
            THEN Return([st1 EXCEPT !.setup_error = "Setup failed"])
            ELSE Goto(st1, AfterSetup(suite))
      [] st.phase = "files" ->
            IF fr.parse_error THEN Goto(st1, AfterFiles(suite))
            ELSE Goto(st1, AfterFile(suite, st.fi))
      [] OTHER -> Return(st1)

\* run_corpus_file has returned fr: what run_suite does with it.
FileDone(suite, st, fr) ==
    LET st1 == [st EXCEPT !.file_results = Append(@, fr)] IN
    CASE st.phase = "setup" ->
            IF ~SetupPassed(fr)
            THEN Return([st1 EXCEPT !.setup_error = "Setup failed"])
            ELSE Goto(st1, AfterSetup(suite))
      [] st.phase = "files" -> Goto(st1, AfterFile(suite, st.fi))
      [] OTHER -> Return(st1)

\* ProgressEvent
TestStart(s, path, t) == [type |-> "TestStart", suite |-> s, file |-> path, test |-> t]
TestComplete(s, path, t) == [type |-> "TestComplete", suite |-> s, file |-> path, test |-> t]
TestOutput(s, path, t, line) ==
    [type |-> "TestOutput", suite |-> s, file |-> path, test |-> t, line |-> line]

\* A bug: the event overtakes the events already in the channel.
Send_Overtakes(ch, e) == <<e>> \o ch

\* Sender::send on the unbounded mpsc channel.
Send(ch, e) == Append(ch, e)

\* ---------------------------------------------------------- run_corpus_file

\* The pattern argument of this run_corpus_file call is Some(_): run_suite
\* passes cli.pattern for the regular files and None for setup and teardown.
PatternArg(st) == pattern /\ st.phase = "files"

\* Why skip_all_tests is called for the file (498-514), or "none".
SkipAllReason(file) ==
    IF ~file.platform_ok THEN "platform"
    ELSE IF file.file_skip.present /\ should_skip(file.file_skip) THEN "skipped"
    ELSE "none"

\* A bug: the file-level skip condition is run before the platform is looked at.
FileCondRuns_BeforePlatform(file) ==
    file.file_skip.present /\ file.file_skip.condition

\* Is the file-level skip condition command run (510-511)?
FileCondRuns(file) ==
    file.platform_ok /\ file.file_skip.present /\ file.file_skip.condition

\* A bug: only the test name is compared with the pattern.
Taken_NameOnly(file, st, skip_all, t) ==
    \/ skip_all # "none"
    \/ ~PatternArg(st)
    \/ file.tests[t].name_matches

\* The loop takes test t: skip_all_tests takes every test (466); the main
\* loop leaves out a test when a pattern is given and neither the file stem
\* nor the test name contains it (519-538).
Taken(file, st, skip_all, t) ==
    \/ skip_all # "none"
    \/ ~PatternArg(st)
    \/ file.stem_matches
    \/ file.tests[t].name_matches

\* The first test after position t that the loop takes, 0 when there is none.
NextTaken(file, st, skip_all, t) ==
    LET later == {u \in (t + 1)..Len(file.tests) : Taken(file, st, skip_all, u)} IN
    IF later = {} THEN 0 ELSE CHOOSE u \in later : \A v \in later : u <= v

\* The TestResult skip_all_tests builds for a test (474-485).
SkippedResult(test, reason) ==
    [result |-> [test |-> test, passed |-> TRUE, skipped |-> TRUE,
                 skip_reason |-> reason, has_output |-> FALSE],
     cmds |-> <<>>]

\* ------------------------------------------------------------------ inputs
NoFile == BadFile

OneFileSuite(fx, su, td, setup, tests, teardown) ==
    Suite(fx, su, td, setup, <<1>>, <<File(TRUE, tests)>>, teardown)

Perms(n) == {p \in [1..n -> 1..n] : \A i, j \in 1..n : i # j => p[i] # p[j]}

TestSeqs(S, n) == UNION {[1..k -> S] : k \in 1..n}

\* One suite with several regular files, listed by read_dir in any order.
FileKinds == {BadFile, File(TRUE, <<PassT>>), File(TRUE, <<FailT, PassT>>)}
FilesSuites ==
    {Suite(fl[1], fl[2], fl[3], File(TRUE, <<PassT>>), dir, content, File(TRUE, <<PassT>>)) :
        fl \in {<<FALSE, FALSE, FALSE>>, <<FALSE, FALSE, TRUE>>, <<TRUE, TRUE, TRUE>>},
        dir \in UNION {Perms(n) : n \in 1..MaxFiles},
        content \in UNION {[1..n -> FileKinds] : n \in 1..MaxFiles}}

\* One suite with a setup file of every kind.
SetupKinds == {BadFile, File(TRUE, <<PassT>>), File(TRUE, <<FailT>>),
               File(TRUE, <<FailT, PassT>>), File(TRUE, <<SkipT>>)}
SetupSuites ==
    {OneFileSuite(fx, TRUE, td, setup, <<PassT>>, File(TRUE, <<PassT>>)) :
        fx \in BOOLEAN, td \in BOOLEAN, setup \in SetupKinds}

\* One suite, one file, several tests.
SuiteTests == {PassT, FailT, ReqFailT, SkipT}
TeardownKinds == {BadFile, File(TRUE, <<PassT>>), File(TRUE, <<FailT>>)}
TestsSuites ==
    {OneFileSuite(FALSE, FALSE, TRUE, NoFile, tests, teardown) :
        tests \in TestSeqs(SuiteTests, MaxTests), teardown \in TeardownKinds}

\* One suite, one file, one test of any shape.
SingleTestSuites ==
    {OneFileSuite(FALSE, FALSE, FALSE, NoFile, <<t>>, NoFile) :
        t \in {x \in TestCase : ~x.name_matches /\ x.lines = 1}}

\* One suite with setup and teardown and one file, to run under --pattern.
FilterTests == {PassT, Named(PassT), Named(FailT)}
FilterSuites ==
    {Suite(FALSE, TRUE, TRUE, File(TRUE, <<PassT>>), <<1>>,
           <<CorpusFile(TRUE, TRUE, NoSkip, stem, tests)>>, File(TRUE, <<PassT>>)) :
        stem \in BOOLEAN, tests \in TestSeqs(FilterTests, MaxTests)}

\* One suite whose file has a file-level %platform or %skip directive.
FileSkipKinds ==
    {[platform_ok |-> FALSE, file_skip |-> NoSkip],
     [platform_ok |-> FALSE, file_skip |-> SkipIf(0)],
     [platform_ok |-> TRUE, file_skip |-> SkipAlways],
     [platform_ok |-> TRUE, file_skip |-> SkipIf(0)],
     [platform_ok |-> TRUE, file_skip |-> SkipIf(1)]}
SkipFileSuites ==
    {Suite(FALSE, FALSE, TRUE, NoFile, <<1>>,
           <<CorpusFile(TRUE, k.platform_ok, k.file_skip, FALSE, <<Named(PassT), FailT>>)>>,
           File(TRUE, <<PassT>>)) : k \in FileSkipKinds}

\* One or two suites whose tests write lines, to run with streamed output.
StreamTests == {Lines(PassT, n) : n \in 0..MaxLines} \cup {Lines(SkipT, 1)}
StreamSuites ==
    {OneFileSuite(FALSE, FALSE, FALSE, NoFile, tests, NoFile) :
        tests \in TestSeqs(StreamTests, MaxTests)}
StreamPair ==
    OneFileSuite(FALSE, FALSE, FALSE, NoFile, <<Lines(PassT, 2)>>, NoFile)
StreamInputs == {<<su>> : su \in StreamSuites} \cup {<<StreamPair, StreamPair>>}

\* Two suites, one with a fixture and a test that declares variables, the
\* other without a fixture.
TemplateT == Test(FALSE, NoSkip, Success, "template", 0, TRUE)
FixtureSuite == OneFileSuite(TRUE, FALSE, FALSE, NoFile, <<TemplateT>>, NoFile)
PlainSuite == OneFileSuite(FALSE, FALSE, FALSE, NoFile, <<PassT>>, NoFile)
EnvInputs == {<<FixtureSuite, PlainSuite>>, <<PlainSuite, FixtureSuite>>}

\* The inputs that are also run with a --pattern.
PatternInputs == {<<su>> : su \in FilterSuites \cup SkipFileSuites}

\* Several small suites, for the interleavings of their workers.
SmallSuites ==
    {OneFileSuite(FALSE, FALSE, FALSE, NoFile, <<PassT>>, NoFile),
     OneFileSuite(FALSE, FALSE, FALSE, NoFile, <<FailT>>, NoFile)}
ManySuites == UNION {[1..n -> SmallSuites] : n \in {0} \cup 2..MaxSuites}

\* Two suites, one of them with several tests and a teardown file.
LongSuite == OneFileSuite(FALSE, FALSE, TRUE, NoFile, <<PassT, PassT>>, File(TRUE, <<PassT>>))
TwoSuites == {<<LongSuite, su>> : su \in SmallSuites} \cup {<<su, LongSuite>> : su \in SmallSuites}

WellFormed(suite) == Len(suite.dir) = Len(suite.content)

SuiteInputs ==
    {<<su>> : su \in {x \in FilesSuites \cup SetupSuites \cup TestsSuites
                             \cup SingleTestSuites : WellFormed(x)}}
    \cup ManySuites \cup TwoSuites \cup PatternInputs \cup StreamInputs
    \cup EnvInputs

Init ==
    /\ suites \in SuiteInputs
    /\ sequential \in IF Len(suites) >= 2 THEN BOOLEAN ELSE {FALSE}
    /\ pattern \in IF suites \in PatternInputs THEN BOOLEAN ELSE {FALSE}
    /\ stream_output \in IF suites \in StreamInputs THEN BOOLEAN ELSE {FALSE}
    /\ process_env = NoEnv
    /\ main = "start"
    /\ run = [s \in SuiteIds |-> Idle]
    /\ chan = <<>>
    /\ sent = [s \in SuiteIds |-> <<>>]
    /\ rcvd = [s \in SuiteIds |-> <<>>]
    /\ reporter = "idle"
    /\ interrupted = FALSE
    /\ signals = 0
    /\ exit_code = -1
    /\ input = "none"
    /\ output = Pending

\* ----------------------------------------------------------------- actions

Alive == exit_code = -1

\* main.rs 87-100: the suites run one after the other when --sequential is
\* given or there is one suite, and on the rayon pool otherwise.
Scheduled(s) ==
    /\ Alive
    /\ main = "running"
    /\ (sequential \/ Len(suites) = 1) => \A r \in 1..(s - 1) : run[r].phase = "done"

\* run_suite 594-619: the names in env_vars of suite s.  Their values are
\* paths of the suite; the model writes s for "the value of suite s" and 0
\* for "not set".
env_vars(s) ==
    {"CCTR_WORK_DIR", "CCTR_TEST_PATH"}
        \cup (IF suites[s].has_fixture THEN {"CCTR_FIXTURE_DIR"} ELSE {})

\* build_command 170-172 and Command::spawn: a child of suite s gets the
\* process environment, overridden by env_vars.
ChildEnv(s) == [v \in EnvNames |-> IF v \in env_vars(s) THEN s ELSE process_env[v]]

\* Matcher::matches 163-166: std::env::set_var for every entry of env_vars.
SetEnv(s) == [v \in EnvNames |-> IF v \in env_vars(s) THEN s ELSE process_env[v]]

\* run_test reaches Matcher::matches and the regex captures (413-415,
\* matcher.rs 155-166): the test ran, declares variables, and its output is
\* accepted.
MatcherSetsEnv(st, test) ==
    /\ st.skip_all = "none"
    /\ ~(test.skip.present /\ should_skip(test.skip))
    /\ test.expected = "template"
    /\ test.output_ok

\* A command the suite ran: what, for which test of which file, and the
\* CCTR_ variables its process saw.
LogEntry(kind, path, t, env) == [kind |-> kind, path |-> path, test |-> t, env |-> env]

\* main.rs 63-83: discover the suites; none: exit(1).  Otherwise open the
\* progress channel and spawn the reporter thread.
MainStart ==
    /\ Alive
    /\ main = "start"
    /\ IF Len(suites) = 0
       THEN /\ main' = "exited"
            /\ exit_code' = 1
            /\ UNCHANGED reporter
       ELSE /\ main' = "running"
            /\ reporter' = "running"
            /\ UNCHANGED exit_code
    /\ UNCHANGED <<call, suites, sequential, pattern, stream_output, process_env, run, chan, sent, rcvd, interrupted, signals>>

\* run_suite 567-587: create the sandbox directory.
CreateTempDir(s) ==
    /\ Scheduled(s)
    /\ run[s].phase = "idle"
    /\ \E ok \in BOOLEAN :
          run' = [run EXCEPT ![s] =
                    IF ok
                    THEN Goto([@ EXCEPT !.sandbox = "exists"], AfterTempDir(suites[s]))
                    ELSE Return([@ EXCEPT !.setup_error = "Failed to create temp dir"])]
    /\ UNCHANGED <<call, suites, sequential, pattern, stream_output, process_env, main, chan, sent, rcvd, reporter,
                   interrupted, signals, exit_code>>

\* run_suite 605-619: copy the fixture into the sandbox.
CopyFixture(s) ==
    /\ Scheduled(s)
    /\ run[s].phase = "fixture"
    /\ \E ok \in BOOLEAN :
          run' = [run EXCEPT ![s] =
                    IF ok
                    THEN Goto([@ EXCEPT !.log = Append(@, LogEntry("fixture", SetupPath, 0, NoEnv))],
                              AfterFixture(suites[s]))
                    ELSE Return([@ EXCEPT !.setup_error = "Failed to copy fixture"])]
    /\ UNCHANGED <<call, suites, sequential, pattern, stream_output, process_env, main, chan, sent, rcvd, reporter,
                   interrupted, signals, exit_code>>

\* run_corpus_file 445-454 and 498-538: parse the file; a parse error is the
\* FileResult.  Otherwise check the file-level platform and skip directives
\* and enter the loop over its tests at the first test the loop takes.
ParseFile(s) ==
    LET st == run[s]
        file == CurFile(suites[s], st)
        path == CurPath(suites[s], st)
        skip_all == SkipAllReason(file)
        first == NextTaken(file, st, skip_all, 0)
        st1 == IF FileCondRuns(file)
               THEN [st EXCEPT !.log = Append(@, LogEntry("cond", path, 0, ChildEnv(s)))]
               ELSE st IN
    /\ Scheduled(s)
    /\ st.phase \in {"setup", "files", "teardown"}
    /\ st.pc = "call"
    /\ run' = [run EXCEPT ![s] =
                 IF ~file.parse_ok
                 THEN FileDone(suites[s], st,
                               [file_path |-> path, results |-> <<>>, parse_error |-> TRUE])
                 ELSE IF first = 0
                 THEN FileDone(suites[s], st1,
                               [file_path |-> path, results |-> <<>>, parse_error |-> FALSE])
                 ELSE [st1 EXCEPT !.pc = "loop", !.ti = first, !.results = <<>>,
                                  !.skip_all = skip_all]]
    /\ UNCHANGED <<call, suites, sequential, pattern, stream_output, process_env, main, chan, sent, rcvd, reporter,
                   interrupted, signals, exit_code>>

\* run_corpus_file 466-473 and 532-546: the head of the loop: send TestStart.
StartTest(s) ==
    LET st == run[s]
        path == CurPath(suites[s], st)
        e == TestStart(s, path, st.ti) IN
    /\ Scheduled(s)
    /\ st.phase \in {"setup", "files", "teardown"}
    /\ st.pc = "loop"
    /\ run' = [run EXCEPT ![s].pc = "run"]
    /\ chan' = Send(chan, e)
    /\ sent' = [sent EXCEPT ![s] = Append(@, e)]
    /\ UNCHANGED <<call, suites, sequential, pattern, stream_output, process_env, main, rcvd, reporter, interrupted, signals,
                   exit_code>>

\* run_test is given a StreamingContext (its parameter at 349) when main asked
\* for streamed output.
Streaming == stream_output

\* A bug: run_test returns while lines of the command are still unsent.
LinesLeft_None(st, test) == 0

\* run_test 382-403: the lines run_command_streaming still has to hand to
\* on_line; none when the test is skipped or run_command is used.
LinesLeft(st, test) ==
    IF Streaming /\ st.skip_all = "none" /\ ~(test.skip.present /\ should_skip(test.skip))
    THEN test.lines - st.li
    ELSE 0

\* run_command_streaming 253-263 with the callback of run_test 392-399: hand
\* the next output line to on_line, which sends a TestOutput event.
StreamLine(s) ==
    LET st == run[s]
        file == CurFile(suites[s], st)
        path == CurPath(suites[s], st)
        e == TestOutput(s, path, st.ti, st.li + 1) IN
    /\ Scheduled(s)
    /\ st.phase \in {"setup", "files", "teardown"}
    /\ st.pc = "run"
    /\ LinesLeft(st, file.tests[st.ti]) > 0
    /\ run' = [run EXCEPT ![s].li = st.li + 1]
    /\ chan' = Send(chan, e)
    /\ sent' = [sent EXCEPT ![s] = Append(@, e)]
    /\ UNCHANGED <<call, suites, sequential, pattern, stream_output, process_env, main, rcvd, reporter,
                   interrupted, signals, exit_code>>

\* What the loop does with the result of a test (486-495, 548-559).
AfterTest(suite, st, file, path, r, env) ==
    LET st1 == [st EXCEPT
                  !.results = Append(@, r.result),
                  !.log = @ \o [i \in 1..Len(r.cmds) |-> LogEntry(r.cmds[i], path, st.ti, env)]]
        nxt == NextTaken(file, st, st.skip_all, st.ti) IN
    IF nxt # 0
    THEN [st1 EXCEPT !.pc = "loop", !.ti = nxt, !.li = 0]
    ELSE FileDone(suite, st1,
                  [file_path |-> path, results |-> st1.results, parse_error |-> FALSE])

\* run_corpus_file 474-489 and 548-552: run the test (or, in skip_all_tests,
\* build its skipped result), send TestComplete, keep the result; after the
\* last test return the FileResult to run_suite.
FinishTest(s) ==
    LET st == run[s]
        file == CurFile(suites[s], st)
        path == CurPath(suites[s], st)
        e == TestComplete(s, path, st.ti) IN
    /\ Scheduled(s)
    /\ st.phase \in {"setup", "files", "teardown"}
    /\ st.pc = "run"
    /\ LinesLeft(st, file.tests[st.ti]) = 0
    /\ run' = [run EXCEPT ![s] =
                 AfterTest(suites[s], st, file, path,
                           IF st.skip_all # "none"
                           THEN SkippedResult(file.tests[st.ti], st.skip_all)
                           ELSE run_test(file.tests[st.ti]),
                           ChildEnv(s))]
    /\ process_env' = IF MatcherSetsEnv(st, file.tests[st.ti]) THEN SetEnv(s) ELSE process_env
    /\ chan' = Send(chan, e)
    /\ sent' = [sent EXCEPT ![s] = Append(@, e)]
    /\ UNCHANGED <<call, suites, sequential, pattern, stream_output, main, rcvd, reporter,
                   interrupted, signals, exit_code>>

\* main.rs 79-81: the reporter takes the next event off the channel.
Receive ==
    /\ Alive
    /\ reporter = "running"
    /\ chan # <<>>
    /\ rcvd' = [rcvd EXCEPT ![Head(chan).suite] = Append(@, Head(chan))]
    /\ chan' = Tail(chan)
    /\ UNCHANGED <<call, suites, sequential, pattern, stream_output, process_env, main, run, sent, reporter, interrupted,
                   signals, exit_code>>

\* main.rs 87-102: collect() has every SuiteResult; drop the sender.
DropSender ==
    /\ Alive
    /\ main = "running"
    /\ \A s \in SuiteIds : run[s].phase = "done"
    /\ main' = "joining"
    /\ UNCHANGED <<call, suites, sequential, pattern, stream_output, process_env, run, chan, sent, rcvd, reporter, interrupted,
                   signals, exit_code>>

\* A bug: the clone moved into the streaming callback outlives the test.
Senders_CallbackKept ==
    (IF main = "running" THEN {<<"main", 0>>} ELSE {})
        \cup {<<"callback", s>> : s \in {r \in SuiteIds :
                  \E i \in 1..Len(sent[r]) : sent[r][i].type = "TestOutput"}}

\* The Senders of the progress channel that are alive: progress_tx of main
\* until it is dropped (main.rs 73, 102); in parallel mode the clone tx of
\* each worker while its run_suite runs (main.rs 96-97); the clone moved into
\* the on_line callback while run_command_streaming runs (runner.rs 382-399).
Senders ==
    (IF main = "running" THEN {<<"main", 0>>} ELSE {})
        \cup {<<"worker", s>> : s \in {r \in SuiteIds :
                  /\ ~(sequential \/ Len(suites) = 1)
                  /\ run[r].phase \notin {"idle", "done"}}}
        \cup {<<"callback", s>> : s \in {r \in SuiteIds :
                  /\ run[r].phase \in {"setup", "files", "teardown"}
                  /\ run[r].pc = "run"
                  /\ Streaming /\ run[r].skip_all = "none"
                  /\ LET test == CurFile(suites[r], run[r]).tests[run[r].ti] IN
                     ~(test.skip.present /\ should_skip(test.skip))}}

\* main.rs 79-83: the channel is empty and has no sender left: the loop ends.
ReporterFinish ==
    /\ Alive
    /\ reporter = "running"
    /\ Senders = {}
    /\ chan = <<>>
    /\ reporter' = "finished"
    /\ UNCHANGED <<call, suites, sequential, pattern, stream_output, process_env, main, run, chan, sent, rcvd, interrupted,
                   signals, exit_code>>

\* main.rs 125: all_passed
all_passed == \A s \in SuiteIds : SuitePassed(run[s])

\* main.rs 103-127: join the reporter, print the results, exit.
MainExit ==
    /\ Alive
    /\ main = "joining"
    /\ reporter = "finished"
    /\ main' = "exited"
    /\ exit_code' = IF all_passed THEN 0 ELSE 1
    /\ UNCHANGED <<call, suites, sequential, pattern, stream_output, process_env, run, chan, sent, rcvd, reporter, interrupted,
                   signals>>

\* runner::is_interrupted / runner::set_interrupted: the cancellation flag.
is_interrupted == interrupted
set_interrupted == TRUE

\* A bug: the handler ends the process without looking at the flag.
HandlerDoes_AlwaysExits == "exit"

\* What the Ctrl-C handler does (main.rs 28-39): "exit" or "flag".
HandlerDoes == IF is_interrupted THEN "exit" ELSE "flag"

\* main.rs 28-39: the Ctrl-C handler.
CtrlC ==
    /\ Alive
    /\ signals' = signals + 1
    /\ IF HandlerDoes = "exit"
       THEN /\ exit_code' = 130
            /\ main' = "exited"
            /\ UNCHANGED interrupted
       ELSE /\ interrupted' = set_interrupted
            /\ UNCHANGED <<exit_code, main>>
    /\ UNCHANGED <<call, suites, sequential, pattern, stream_output, process_env, run, chan, sent, rcvd, reporter>>

Next ==
    \/ MainStart
    \/ \E s \in SuiteIds : CreateTempDir(s)
    \/ \E s \in SuiteIds : CopyFixture(s)
    \/ \E s \in SuiteIds : ParseFile(s)
    \/ \E s \in SuiteIds : StartTest(s)
    \/ \E s \in SuiteIds : StreamLine(s)
    \/ \E s \in SuiteIds : FinishTest(s)
    \/ Receive
    \/ DropSender
    \/ ReporterFinish
    \/ MainExit
    \/ CtrlC

Spec == Init /\ [][Next]_vars

\* The reporter thread is scheduled: it takes an event that is in the channel
\* and leaves its loop when the channel is closed.
SpecLive == Spec /\ WF_vars(Receive) /\ WF_vars(ReporterFinish)

\* ------------------------------------------------ functions on their own
\* The scheduler when a function is checked on its own: nothing to run.
NoSuites ==
    /\ suites = <<>>
    /\ sequential = FALSE
    /\ pattern = FALSE
    /\ stream_output = FALSE
    /\ process_env = NoEnv
    /\ main = "start"
    /\ run = <<>>
    /\ chan = <<>>
    /\ sent = <<>>
    /\ rcvd = <<>>
    /\ reporter = "idle"
    /\ interrupted = FALSE
    /\ signals = 0
    /\ exit_code = -1

\* Strings are sequences of characters.
Strings(alphabet, n) == UNION {[1..k -> alphabet] : k \in 0..n}
Last(str) == str[Len(str)]
Front(str) == SubSeq(str, 1, Len(str) - 1)

\* ---------------------------------------------- run_command and the verdict
LF == "\n"
CR == "\r"

\* str::replace("\r\n", "\n"): the matches from left to right, not overlapping.
RECURSIVE ReplaceCRLF(_)
ReplaceCRLF(str) ==
    IF str = <<>> THEN <<>>
    ELSE IF Len(str) >= 2 /\ str[1] = CR /\ str[2] = LF
    THEN <<LF>> \o ReplaceCRLF(SubSeq(str, 3, Len(str)))
    ELSE <<str[1]>> \o ReplaceCRLF(Tail(str))

\* A bug: one trailing newline is removed, not all of them.
trim_end_matches_Once(str) ==
    IF str # <<>> /\ Last(str) = LF THEN Front(str) ELSE str

\* str::trim_end_matches('\n'): removes the pattern from the end repeatedly.
RECURSIVE trim_end_matches(_)
trim_end_matches(str) ==
    IF str # <<>> /\ Last(str) = LF THEN trim_end_matches(Front(str)) ELSE str

\* run_command 187-194: the output it returns for what the child wrote
\* (stdout followed by stderr).
run_command(combined) == trim_end_matches(ReplaceCRLF(combined))

\* run_test 406-412: the verdict of a test without variables and with an
\* expected block.
OutputPassed(actual_output, expected) == actual_output = expected

\* What a child writes, and the expected blocks read_block_until_separator
\* returns: lines joined by "\n", the last line not blank, not empty here.
Outputs == Strings({"a", LF, CR}, MaxLen)
ExpectedBlocks == {e \in Strings({"a", LF}, MaxLen - 1) : e # <<>> /\ Last(e) # LF}

InitOutput ==
    /\ NoSuites
    /\ input \in [combined : Outputs, expected : ExpectedBlocks]
    /\ output = Pending

\* run_test 382-412 without streaming: run the command, compare its output.
RunAndCompare ==
    /\ ~output.done
    /\ output' = [done |-> TRUE, actual_output |-> run_command(input.combined),
                  passed |-> OutputPassed(run_command(input.combined), input.expected)]
    /\ UNCHANGED <<input, sched>>

NextOutput == RunAndCompare

SpecOutput == InitOutput /\ [][NextOutput]_vars

\* ---------------------------------------------------- run_command_streaming
\* BufRead::lines on a pipe: the bytes up to each "\n", without the "\n" and
\* without a "\r" right before it; what follows the last "\n" is a line too.
StripCR(line) == IF line # <<>> /\ Last(line) = CR THEN Front(line) ELSE line

RECURSIVE ReadLines(_, _)
ReadLines(bytes, line) ==
    IF bytes = <<>> THEN (IF line = <<>> THEN <<>> ELSE <<line>>)
    ELSE IF Head(bytes) = LF THEN <<StripCR(line)>> \o ReadLines(Tail(bytes), <<>>)
    ELSE ReadLines(Tail(bytes), Append(line, Head(bytes)))

reader_lines(bytes) == ReadLines(bytes, <<>>)

\* [String]::join
RECURSIVE join(_, _)
join(strings, sep) ==
    IF strings = <<>> THEN <<>>
    ELSE IF Len(strings) = 1 THEN strings[1]
    ELSE strings[1] \o sep \o join(Tail(strings), sep)

\* run_command_streaming 203-273: the lines given to on_line, and the
\* (String, i32) that is returned.
run_command_streaming(stdout, stderr, status) ==
    LET output_lines == reader_lines(stdout) \o reader_lines(stderr) IN
    [on_line |-> output_lines,
     combined |-> ReplaceCRLF(join(output_lines, <<LF>>)),
     exit_code |-> status]

\* run_command 177-198 with the child's two streams and exit status.
run_command_output(stdout, stderr, status) ==
    [combined |-> run_command(stdout \o stderr), exit_code |-> status]

\* A child process: what it writes to stdout and to stderr, and its status.
Children ==
    [stdout : Strings({"a", LF, CR}, MaxLen - 1),
     stderr : Strings({"a", LF, CR}, MaxLen - 1),
     status : 0..MaxExit]

InitStreaming ==
    /\ NoSuites
    /\ input \in Children
    /\ output = Pending

\* The same child run by run_command and by run_command_streaming.
RunBoth ==
    /\ ~output.done
    /\ output' = [done |-> TRUE,
                  collected |-> run_command_output(input.stdout, input.stderr, input.status),
                  streamed |-> run_command_streaming(input.stdout, input.stderr, input.status)]
    /\ UNCHANGED <<input, sched>>

NextStreaming == RunBoth

SpecStreaming == InitStreaming /\ [][NextStreaming]_vars

\* ---------------------------------------------------------- Matcher::matches
\* What a call of Matcher::matches meets: whether build_regex returns Ok,
\* whether the regex captures the actual output, whether extract_values
\* returns Ok, and what eval_bool returns for each constraint, in the order of
\* declaration: Ok(true), Ok(false) or Err.
EvalOutcomes == {"true", "false", "error"}
MatchCalls ==
    [regex_ok : BOOLEAN, captures : BOOLEAN, extract_ok : BOOLEAN,
     constraints : UNION {[1..n -> EvalOutcomes] : n \in 0..MaxConstraints}]

\* The call in progress: the constraints it has evaluated so far, in the
\* order of evaluation, and what it returned.
Matching(evaluated) == [done |-> FALSE, evaluated |-> evaluated, result |-> "none", at |-> 0]
Returned(evaluated, result, at) ==
    [done |-> TRUE, evaluated |-> evaluated, result |-> result, at |-> at]

\* Matcher::matches 153-172: up to the loop over the constraints.
BeforeConstraints(c) ==
    IF ~c.regex_ok THEN Returned(<<>>, "RegexBuild", 0)
    ELSE IF ~c.captures THEN Returned(<<>>, "unmatched", 0)
    ELSE IF ~c.extract_ok THEN Returned(<<>>, "JsonParse", 0)
    ELSE Matching(<<>>)

\* A bug: the loop goes on after a constraint that is false and reports the
\* last one.
EvalConstraint_KeepGoing(c, out) ==
    LET i == Len(out.evaluated) + 1
        evaluated == Append(out.evaluated, i) IN
    IF c.constraints[i] = "error" THEN Returned(evaluated, "ConstraintFailed", i)
    ELSE IF c.constraints[i] = "false" /\ i = Len(c.constraints)
    THEN Returned(evaluated, "ConstraintNotSatisfied", i)
    ELSE Matching(evaluated)

\* Matcher::matches 174-190: one turn of the loop over the constraints.
EvalConstraint(c, out) ==
    LET i == Len(out.evaluated) + 1
        evaluated == Append(out.evaluated, i) IN
    IF c.constraints[i] = "true" THEN Matching(evaluated)
    ELSE IF c.constraints[i] = "false" THEN Returned(evaluated, "ConstraintNotSatisfied", i)
    ELSE Returned(evaluated, "ConstraintFailed", i)

InitMatch ==
    /\ NoSuites
    /\ input \in MatchCalls
    /\ output = Pending

MatchStart ==
    /\ output = Pending
    /\ output' = BeforeConstraints(input)
    /\ UNCHANGED <<input, sched>>

MatchConstraint ==
    /\ output # Pending /\ ~output.done
    /\ Len(output.evaluated) < Len(input.constraints)
    /\ output' = EvalConstraint(input, output)
    /\ UNCHANGED <<input, sched>>

\* Matcher::matches 192-195: every constraint held.
MatchReturn ==
    /\ output # Pending /\ ~output.done
    /\ Len(output.evaluated) = Len(input.constraints)
    /\ output' = Returned(output.evaluated, "matched", 0)
    /\ UNCHANGED <<input, sched>>

NextMatch == MatchStart \/ MatchConstraint \/ MatchReturn

SpecMatch == InitMatch /\ [][NextMatch]_vars

\* ------------------------------------------------------- cctr-expr: evaluate
\* Expr, as far as the connectives need it: the literals true and false, a
\* number, a variable that is not defined, a binary operation and a forall.
\* The forall holds its iterable (an array, a number, or an undefined
\* variable) and, for each item of the array, the predicate with the
\* variable bound to that item.
Value(b) == IF b THEN "true" ELSE "false"
Bool(b) == [op |-> "bool", v |-> Value(b)]
Number == [op |-> "number"]
Var == [op |-> "var"]
BinaryOp(op, left, right) == [op |-> op, left |-> left, right |-> right]
ForAll(iterable, predicates) ==
    [op |-> "forall", iterable |-> iterable, predicates |-> predicates]

\* Result<Value, EvalError>, with the sub-expressions that were evaluated:
\* each is named by its path from the root.
Ok(v, trace) == [err |-> FALSE, v |-> v, trace |-> trace]
Err(trace) == [err |-> TRUE, v |-> "error", trace |-> trace]

\* Value::as_bool on a result: a value that is not a Bool is a TypeError.
as_bool(r) == IF r.err \/ r.v \notin {"true", "false"} THEN Err(r.trace) ELSE r

RECURSIVE evaluate(_, _)
RECURSIVE ForAllLoop(_, _, _, _)

\* A bug: both operands are evaluated before the connective is applied.
eval_binary_op_Eager(op, left, right, path) ==
    LET l == as_bool(evaluate(left, Append(path, 1)))
        r == as_bool(evaluate(right, Append(path, 2)))
        trace == l.trace \o r.trace IN
    IF l.err \/ r.err THEN Err(trace)
    ELSE IF op = "and" THEN Ok(Value(l.v = "true" /\ r.v = "true"), trace)
    ELSE IF op = "or" THEN Ok(Value(l.v = "true" \/ r.v = "true"), trace)
    ELSE Ok(Value(l.v = r.v), trace)

\* eval_binary_op 962-1014: and, or, and == as one of the other operators.
eval_binary_op(op, left, right, path) ==
    IF op \in {"and", "or"}
    THEN LET l == as_bool(evaluate(left, Append(path, 1))) IN
         IF l.err THEN l
         ELSE IF op = "and" /\ l.v = "false" THEN Ok("false", l.trace)
         ELSE IF op = "or" /\ l.v = "true" THEN Ok("true", l.trace)
         ELSE LET r == as_bool(evaluate(right, Append(path, 2))) IN
              IF r.err THEN Err(l.trace \o r.trace) ELSE Ok(r.v, l.trace \o r.trace)
    ELSE LET l == evaluate(left, Append(path, 1)) IN
         IF l.err THEN l
         ELSE LET r == evaluate(right, Append(path, 2)) IN
              IF r.err THEN Err(l.trace \o r.trace)
              ELSE Ok(Value(l.v = r.v), l.trace \o r.trace)

\* evaluate 766-774: the loop over the items, from item i on.
ForAllLoop(predicates, i, path, trace) ==
    IF i > Len(predicates) THEN Ok("true", trace)
    ELSE LET result == as_bool(evaluate(predicates[i], Append(path, i))) IN
         IF result.err THEN Err(trace \o result.trace)
         ELSE IF result.v = "false" THEN Ok("false", trace \o result.trace)
         ELSE ForAllLoop(predicates, i + 1, path, trace \o result.trace)

\* evaluate
evaluate(expr, path) ==
    CASE expr.op = "bool" -> Ok(expr.v, <<path>>)
      [] expr.op = "number" -> Ok("number", <<path>>)
      [] expr.op = "var" -> Err(<<path>>)
      [] expr.op = "forall" ->
            IF expr.iterable = "array"
            THEN ForAllLoop(expr.predicates, 1, path, <<path>>)
            ELSE Err(<<path>>)
      [] OTHER ->
            LET r == eval_binary_op(expr.op, expr.left, expr.right, path) IN
            [r EXCEPT !.trace = <<path>> \o @]

\* The expressions: literals, one operation on literals, and a connective
\* over such expressions.
Literals == {Bool(TRUE), Bool(FALSE), Number, Var}
Simple ==
    Literals
    \cup {BinaryOp(op, l, r) : op \in {"and", "or", "=="}, l \in Literals, r \in Literals}
    \cup {ForAll("array", ps) : ps \in UNION {[1..n -> Literals] : n \in 0..MaxItems}}
    \cup {ForAll("number", <<>>), ForAll("var", <<>>)}
Exprs ==
    Simple \cup {BinaryOp(op, l, r) : op \in {"and", "or"}, l \in Simple, r \in Simple}

InitExpr ==
    /\ NoSuites
    /\ input \in Exprs
    /\ output = Pending

\* eval_bool's call of evaluate on the parsed expression.
Evaluate ==
    /\ ~output.done
    /\ output' = [done |-> TRUE, result |-> evaluate(input, <<>>)]
    /\ UNCHANGED <<input, sched>>

NextExpr == Evaluate

SpecExpr == InitExpr /\ [][NextExpr]_vars

\* ------------------------------------------------------------ the parser
\* A corpus document is a sequence of lines, each ended by a newline and
\* without spaces at its ends.  A line is a run of n '=' or n '-', a blank
\* line, the word where, a directive with its argument, or other text.
Line(k, n, arg) == [k |-> k, n |-> n, arg |-> arg]
Eq(n) == Line("=", n, {})
Dash(n) == Line("-", n, {})
Blank == Line("blank", 0, {})
Text == Line("text", 0, {})
Where == Line("where", 0, {})
SkipLine == Line("%skip", 0, {})
RequireLine == Line("%require", 0, {})
ExitLine == Line("%exit", 0, {})
ShellLine(shell) == Line("%shell", 0, {shell})
PlatformLine(platforms) == Line("%platform", 0, platforms)

\* Shell and Platform
Shell == {"sh", "bash", "zsh", "powershell", "cmd"}
Platform == {"windows", "unix", "macos", "linux"}

\* header_sep, is_any_separator_line: a separator has at least this many
\* characters; ParseState::new starts delimiter_len with it.
MinDelimiter == 3

\* ParseState
ParseState(lines) ==
    [input |-> lines, current_line |-> 1, delimiter_len |-> MinDelimiter,
     error_message |-> "none"]

is_any_separator_line(line) == line.k \in {"=", "-"} /\ line.n >= MinDelimiter

\* skip_blank_lines: the input without its leading blank lines.
RECURSIVE skip_blank_lines(_)
skip_blank_lines(inp) ==
    IF inp # <<>> /\ inp[1].k = "blank" THEN skip_blank_lines(Tail(inp)) ELSE inp

\* read_block_until_separator, the loop: how many lines it takes.  Only a
\* separator of exactly delimiter_len characters ends the block.
RECURSIVE BlockLen(_, _)
BlockLen(inp, delimiter_len) ==
    IF inp = <<>> \/ (is_any_separator_line(inp[1]) /\ inp[1].n = delimiter_len)
    THEN 0
    ELSE 1 + BlockLen(Tail(inp), delimiter_len)

\* read_block_until_separator 556-558: pop the trailing blank lines.
RECURSIVE PopBlank(_)
PopBlank(block) ==
    IF block # <<>> /\ Last(block).k = "blank" THEN PopBlank(Front(block)) ELSE block

\* read_block_until_separator: the block, and the input that is left.
read_block_until_separator(inp, delimiter_len) ==
    LET n == BlockLen(inp, delimiter_len) IN
    [block |-> PopBlank(SubSeq(inp, 1, n)), rest |-> SubSeq(inp, n + 1, Len(inp))]

\* repeat(0.., constraint_line): how many lines it takes.  constraint_line
\* fails on a blank line and on the word where, and takes any other line.
RECURSIVE ConstraintLen(_)
ConstraintLen(inp) ==
    IF inp = <<>> \/ inp[1].k \in {"blank", "where"} THEN 0
    ELSE 1 + ConstraintLen(Tail(inp))

\* opt(where_section): a dash separator of the delimiter length, the word
\* where, and the constraint lines; the input is left as it was on failure.
where_section(inp, delimiter_len) ==
    IF Len(inp) >= 2 /\ inp[1] = Dash(delimiter_len) /\ inp[2].k = "where"
    THEN LET body == SubSeq(inp, 3, Len(inp))
             n == ConstraintLen(body) IN
         [ok |-> TRUE, constraints |-> SubSeq(body, 1, n),
          rest |-> SubSeq(body, n + 1, Len(body))]
    ELSE [ok |-> FALSE, constraints |-> <<>>, rest |-> inp]

\* test_case 609-631: the loop over the directives of a test header.
RECURSIVE HeaderDirectives(_, _)
HeaderDirectives(inp, acc) ==
    IF inp # <<>> /\ inp[1].k = "%skip" /\ ~acc.skip
    THEN HeaderDirectives(Tail(inp), [acc EXCEPT !.skip = TRUE, !.count = @ + 1])
    ELSE IF inp # <<>> /\ inp[1].k = "%require"
    THEN HeaderDirectives(Tail(inp), [acc EXCEPT !.require = TRUE, !.count = @ + 1])
    ELSE IF inp # <<>> /\ inp[1].k = "%exit"
    THEN HeaderDirectives(Tail(inp), [acc EXCEPT !.exit = TRUE, !.count = @ + 1])
    ELSE [acc EXCEPT !.rest = inp]

\* A parser that fails: Backtrack, with the state it leaves.
Backtrack(state, message) ==
    [ok |-> FALSE, state |-> [state EXCEPT !.error_message = message]]

Max(a, b) == IF a >= b THEN a ELSE b

\* test_case 648-708: from the closing line of the header to the end.
TestBody(state, start_line, delimiter_len, name, dirs) ==
    LET inp == dirs.rest
        line3 == state.current_line + 2 + dirs.count IN
    IF inp # <<>> /\ inp[1].k = "=" /\ inp[1].n >= MinDelimiter /\ inp[1].n # delimiter_len
    THEN Backtrack([state EXCEPT !.input = inp, !.current_line = line3,
                                 !.delimiter_len = delimiter_len],
                   "delimiter length mismatch")
    ELSE IF inp = <<>> \/ inp[1] # Eq(delimiter_len)
    THEN Backtrack([state EXCEPT !.input = inp, !.current_line = line3,
                                 !.delimiter_len = delimiter_len],
                   state.error_message)
    ELSE
    LET command_start == line3 + 1
        cmd == read_block_until_separator(Tail(inp), delimiter_len)
        line4 == command_start + Max(Len(cmd.block), 1)
        has_output_separator == cmd.rest # <<>> /\ cmd.rest[1] = Dash(delimiter_len)
        exp == read_block_until_separator(Tail(cmd.rest), delimiter_len)
        line5 == line4 + 1 + Len(exp.block)
        wh == where_section(exp.rest, delimiter_len)
        line6 == IF wh.constraints # <<>> THEN line5 + 2 + Len(wh.constraints) ELSE line5
        rest == skip_blank_lines(IF has_output_separator THEN wh.rest ELSE cmd.rest)
        end_line == IF has_output_separator THEN line6 ELSE line4 IN
    [ok |-> TRUE,
     state |-> [state EXCEPT !.input = rest, !.current_line = end_line,
                             !.delimiter_len = delimiter_len],
     test |-> [name |-> name, command |-> cmd.block,
               has_expected |-> has_output_separator,
               expected_output |-> IF has_output_separator THEN exp.block ELSE <<>>,
               constraints |-> IF has_output_separator THEN wh.constraints ELSE <<>>,
               start_line |-> start_line, end_line |-> end_line,
               skip |-> dirs.skip, require |-> dirs.require, exit |-> dirs.exit,
               delimiter_len |-> delimiter_len]]

\* test_case 594-646: the header.  The opening line fixes the delimiter
\* length of the test (602-603).
test_case(state) ==
    LET inp == skip_blank_lines(state.input)
        start_line == state.current_line IN
    IF inp = <<>> \/ inp[1].k # "=" \/ inp[1].n < MinDelimiter
    THEN Backtrack([state EXCEPT !.input = inp], state.error_message)
    ELSE
    LET delimiter_len == inp[1].n
        after == Tail(inp)
        name == IF after = <<>> THEN Blank ELSE after[1]
        dirs == HeaderDirectives(IF after = <<>> THEN <<>> ELSE Tail(after),
                                 [skip |-> FALSE, require |-> FALSE, exit |-> FALSE,
                                  count |-> 0, rest |-> <<>>])
        st == [state EXCEPT !.input = dirs.rest, !.delimiter_len = delimiter_len,
                            !.current_line = @ + 2 + dirs.count] IN
    IF dirs.rest # <<>> /\ dirs.rest[1].k = "%platform"
    THEN Backtrack(st, "%platform is only allowed at file level")
    ELSE IF dirs.rest # <<>> /\ dirs.rest[1].k = "%shell"
    THEN Backtrack(st, "%shell is only allowed at file level")
    ELSE TestBody(state, start_line, delimiter_len, name, dirs)

\* corpus_file 722-738: the loop over the file-level directives.
RECURSIVE FileDirectives(_, _)
FileDirectives(inp, acc) ==
    IF inp # <<>> /\ inp[1].k = "%skip" /\ ~acc.file_skip
    THEN FileDirectives(skip_blank_lines(Tail(inp)),
                        [acc EXCEPT !.file_skip = TRUE, !.count = @ + 1])
    ELSE IF inp # <<>> /\ inp[1].k = "%shell" /\ acc.file_shell = {}
    THEN FileDirectives(skip_blank_lines(Tail(inp)),
                        [acc EXCEPT !.file_shell = inp[1].arg, !.count = @ + 1])
    ELSE IF inp # <<>> /\ inp[1].k = "%platform" /\ acc.file_platform = {}
    THEN FileDirectives(skip_blank_lines(Tail(inp)),
                        [acc EXCEPT !.file_platform = inp[1].arg, !.count = @ + 1])
    ELSE [acc EXCEPT !.rest = inp]

\* corpus_file 742-754: the loop over the tests.
RECURSIVE TestsLoop(_, _)
TestsLoop(state, tests) ==
    LET peeked == skip_blank_lines(state.input) IN
    IF peeked = <<>> \/ peeked[1].k # "=" \/ peeked[1].n < MinDelimiter
    THEN [ok |-> TRUE, state |-> state, tests |-> tests]
    ELSE LET tc == test_case(state) IN
         IF tc.ok THEN TestsLoop(tc.state, Append(tests, tc.test))
         ELSE [ok |-> FALSE, state |-> tc.state, tests |-> tests]

\* corpus_file
corpus_file(state) ==
    LET dirs == FileDirectives(skip_blank_lines(state.input),
                               [file_skip |-> FALSE, file_shell |-> {}, file_platform |-> {},
                                count |-> 0, rest |-> <<>>])
        loop == TestsLoop([state EXCEPT !.input = dirs.rest, !.current_line = @ + dirs.count],
                          <<>>) IN
    [ok |-> loop.ok, state |-> loop.state,
     file |-> [file_skip |-> dirs.file_skip, file_shell |-> dirs.file_shell,
               file_platform |-> dirs.file_platform, tests |-> loop.tests]]

\* A bug: every shell is accepted with every platform list.
validate_shell_platform_Always(shell, platforms) == TRUE

\* validate_shell_platform: TRUE for Ok(()), FALSE for Err.
validate_shell_platform(shell, platforms) ==
    LET is_windows_shell == shell \in {"powershell", "cmd"}
        has_windows == "windows" \in platforms
        has_unix == platforms \cap {"unix", "macos", "linux"} # {} IN
    /\ ~(is_windows_shell /\ has_unix /\ ~has_windows)
    /\ ~(shell \in {"sh", "zsh"} /\ has_windows /\ ~has_unix)
    /\ ~(shell = "cmd" /\ has_unix /\ ~has_windows)

\* parse_content: Ok(CorpusFile) or Err(ParseError::Parse {line, message}).
parse_content(content) ==
    LET r == corpus_file(ParseState(content)) IN
    IF ~r.ok
    THEN [done |-> TRUE, ok |-> FALSE, line |-> r.state.current_line,
          message |-> IF r.state.error_message = "none"
                      THEN "failed to parse corpus file" ELSE r.state.error_message]
    ELSE IF r.file.file_shell # {} /\ r.file.file_platform # {}
            /\ \E shell \in r.file.file_shell :
                  ~validate_shell_platform(shell, r.file.file_platform)
    THEN [done |-> TRUE, ok |-> FALSE, line |-> 1, message |-> "not compatible"]
    ELSE [done |-> TRUE, ok |-> TRUE, file |-> r.file]

\* -------------------------------------------- extract_variables_from_expected
\* An expected block as a string of characters: the letters o and r, the
\* digit 1, a space, a colon and the two braces.
Letters == {"o", "r"}
Digits == {"1"}
NameChars == Letters \cup Digits \cup {" ", ":"}

\* RESERVED_KEYWORDS 260-290: the keyword that these letters spell.
RESERVED_KEYWORDS == {<<"o", "r">>}
is_reserved_keyword(name) == name \in RESERVED_KEYWORDS

\* str::find: the 1-based position of the first occurrence, 0 for None.
RECURSIVE FindFrom(_, _, _)
FindFrom(str, pat, i) ==
    IF i + Len(pat) - 1 > Len(str) THEN 0
    ELSE IF SubSeq(str, i, i + Len(pat) - 1) = pat THEN i
    ELSE FindFrom(str, pat, i + 1)
find(str, pat) == FindFrom(str, pat, 1)

\* str::trim
RECURSIVE trim_start(_)
trim_start(str) == IF str # <<>> /\ Head(str) = " " THEN trim_start(Tail(str)) ELSE str
RECURSIVE trim_end(_)
trim_end(str) == IF str # <<>> /\ Last(str) = " " THEN trim_end(Front(str)) ELSE str
trim(str) == trim_end(trim_start(str))

\* parse_placeholder 296-314, the name: what precedes the colon, trimmed.
PlaceholderName(content) ==
    LET c == trim(content)
        colon_pos == find(c, <<":">>) IN
    IF colon_pos > 0 THEN trim(SubSeq(c, 1, colon_pos - 1)) ELSE c

\* parse_placeholder: Err for a reserved keyword, otherwise Ok with the name.
parse_placeholder(content) ==
    LET name == PlaceholderName(content) IN
    [ok |-> ~is_reserved_keyword(name), name |-> name]

\* extract_variables_from_expected 316-335: the loop.
RECURSIVE ExtractLoop(_, _)
ExtractLoop(remaining, variables) ==
    LET start == find(remaining, <<"{", "{">>)
        end == find(SubSeq(remaining, start, Len(remaining)), <<"}", "}">>) IN
    IF start = 0 \/ end = 0 THEN [ok |-> TRUE, variables |-> variables]
    ELSE LET p == parse_placeholder(SubSeq(remaining, start + 2, start + end - 2))
             rest == SubSeq(remaining, start + end + 1, Len(remaining)) IN
         IF ~p.ok THEN [ok |-> FALSE, variables |-> <<>>]
         ELSE IF p.name # <<>> /\ \A i \in 1..Len(variables) : variables[i] # p.name
         THEN ExtractLoop(rest, Append(variables, p.name))
         ELSE ExtractLoop(rest, variables)

extract_variables_from_expected(expected) == ExtractLoop(expected, <<>>)

\* The expected blocks: a placeholder with any content of up to MaxName
\* characters, after nothing or a letter, before nothing, another
\* placeholder or an unclosed one.
Placeholder(content) == <<"{", "{">> \o content \o <<"}", "}">>
ExpectedTexts ==
    {pre \o Placeholder(content) \o post :
        pre \in {<<>>, <<"o">>},
        content \in Strings(NameChars, MaxName),
        post \in {<<>>, Placeholder(<<"r">>), Placeholder(<<"o", "r">>), <<"{", "{", "r">>}}

InitVariables ==
    /\ NoSuites
    /\ input \in ExpectedTexts
    /\ output = Pending

\* test_case 684-687: the variables of the expected block; an Err makes
\* test_case fail, and parse_content with it.
ExtractVariables ==
    /\ ~output.done
    /\ output' = [done |-> TRUE,
                  ok |-> extract_variables_from_expected(input).ok,
                  variables |-> extract_variables_from_expected(input).variables]
    /\ UNCHANGED <<input, sched>>

NextVariables == ExtractVariables

SpecVariables == InitVariables /\ [][NextVariables]_vars

\* ------------------------------------------------------------- documents
\* The delimiter lengths of the documents, and the runs of '=' and '-' in
\* them (runs shorter than a separator included).
DelimiterLens == MinDelimiter..MaxDelimiter
RunLens == (MinDelimiter - 1)..MaxDelimiter

\* What a block of a test is made of: at most one line of any kind that is
\* not a directive.
ContentLines == {Text, Blank} \cup {Eq(n) : n \in RunLens} \cup {Dash(n) : n \in RunLens}
Contents == {<<>>} \cup {<<l>> : l \in ContentLines}

\* A test: the header with its directives, then the blocks.
Header(len, dirs, closing) == <<Eq(len), Text>> \o dirs \o <<Eq(closing)>>
PlainTest(len) == Header(len, <<>>, len) \o <<Text, Dash(len), Text>>

\* The lines between a test header and its closing line.
HeaderLines ==
    {<<>>, <<SkipLine>>, <<RequireLine, ExitLine>>, <<SkipLine, SkipLine>>,
     <<PlatformLine({"linux"})>>, <<ShellLine("sh")>>,
     <<SkipLine, PlatformLine({"linux"})>>, <<ExitLine, ShellLine("sh")>>}

\* What precedes the first test.
Prologues ==
    {<<>>, <<Blank>>, <<Text>>, <<SkipLine>>, <<SkipLine, SkipLine>>,
     <<ExitLine>>, <<RequireLine>>, <<SkipLine, Blank, ExitLine>>,
     <<Blank, SkipLine, Blank, ShellLine("bash")>>}
    \cup {<<ShellLine(sh), PlatformLine(ps)>> : sh \in Shell, ps \in SUBSET Platform \ {{}}}
    \cup {<<PlatformLine(ps), Blank, ShellLine(sh)>> : sh \in Shell, ps \in SUBSET Platform \ {{}}}

\* The blocks of a test delimited with len: the command, then nothing or the
\* expected block, then nothing or a where-section and what ends it.
WhereSections(len) ==
    {<<>>} \cup {<<Dash(len), Where>> \o cs \o gap :
                    cs \in {<<>>, <<Text>>, <<Eq(len)>>}, gap \in {<<>>, <<Blank>>}}
Bodies(len) ==
    Contents \cup {cmd \o <<Dash(len)>> \o exp \o wh :
                      cmd \in Contents, exp \in Contents, wh \in WhereSections(len)}

\* What follows the first test: nothing, text, or a second test of any
\* delimiter length.
Epilogues ==
    {<<>>, <<Text>>} \cup {Header(len, <<>>, len) \o <<Text>> : len \in DelimiterLens}

\* The documents: every prologue with a plain test, every header with a
\* plain body, and every body with every epilogue.
Documents ==
    {pro \o PlainTest(MinDelimiter) : pro \in Prologues}
    \cup {Header(len, dirs, closing) \o <<Text, Dash(len), Text>> :
             len \in DelimiterLens, dirs \in HeaderLines, closing \in DelimiterLens}
    \cup UNION {{Header(len, <<>>, len) \o body \o epi :
                    body \in Bodies(len), epi \in Epilogues} : len \in DelimiterLens}

InitParse ==
    /\ NoSuites
    /\ input \in Documents
    /\ output = Pending

\* parse_file 152-155: read the document and parse it.
Parse ==
    /\ ~output.done
    /\ output' = parse_content(input)
    /\ UNCHANGED <<input, sched>>

NextParse == Parse

SpecParse == InitParse /\ [][NextParse]_vars

\* ------------------------------------------------------- update_corpus_file
\* SEPARATOR_PATTERN ^-{3,}$ and HEADER_PATTERN ^={3,}$ (update.rs 6-7).
SEPARATOR_PATTERN(line) == line.k = "-" /\ line.n >= 3
HEADER_PATTERN(line) == line.k = "=" /\ line.n >= 3

\* A TestResult as far as update mode reads it: the parsed test with its
\* start_line and end_line, passed, and actual_output: its lines, or None.
None == [some |-> FALSE, lines |-> <<>>]
Some(lines) == [some |-> TRUE, lines |-> lines]
TestResult(test, passed, actual_output) ==
    [test |-> test, passed |-> passed, actual_output |-> actual_output]

\* update_corpus_file 25-45: the scan for the expected block, from line i on.
\* expected_start is 0 for None; the result is the pair, with 0 for None.
RECURSIVE ScanBlock(_, _, _, _)
ScanBlock(lines, test, i, expected_start) ==
    IF i > Len(lines) \/ i > test.end_line + 10
    THEN [expected_start |-> expected_start, expected_end |-> 0, found |-> FALSE]
    ELSE IF i < test.start_line THEN ScanBlock(lines, test, i + 1, expected_start)
    ELSE IF SEPARATOR_PATTERN(lines[i]) /\ expected_start = 0
    THEN ScanBlock(lines, test, i + 1, i)
    ELSE IF expected_start # 0 /\ (HEADER_PATTERN(lines[i]) \/ i >= Len(lines))
    THEN [expected_start |-> expected_start,
          expected_end |-> IF HEADER_PATTERN(lines[i]) THEN i - 1 ELSE i, found |-> TRUE]
    ELSE ScanBlock(lines, test, i + 1, expected_start)

\* update_corpus_file 13-59: one turn of the loop over the results.  The
\* lines 1..expected_start are kept, those up to expected_end are replaced.
UpdateOne(lines, result) ==
    IF result.passed \/ ~result.actual_output.some THEN lines
    ELSE LET scan == ScanBlock(lines, result.test, 1, 0)
             start == scan.expected_start
             end == scan.expected_end
             actual_lines == result.actual_output.lines
             needs_blank == end < Len(lines) /\ lines[end].k # "blank" IN
         IF ~scan.found THEN lines
         ELSE SubSeq(lines, 1, start) \o actual_lines
                  \o (IF needs_blank /\ actual_lines # <<>> THEN <<Blank>> ELSE <<>>)
                  \o SubSeq(lines, end + 1, Len(lines))

\* update_corpus_file
RECURSIVE update_corpus_file(_, _)
update_corpus_file(lines, results) ==
    IF results = <<>> THEN lines
    ELSE update_corpus_file(UpdateOne(lines, Head(results)), Tail(results))

\* A test of a corpus file in pieces: a header, a one-line command with or
\* without a blank line after it, the dash separator, the expected block,
\* with or without a where-section, with or without a blank line at the end.
Piece(cmd_blank, expected, where, gap) ==
    [cmd_blank |-> cmd_blank, expected |-> expected, where |-> where, gap |-> gap]
PieceLines(piece) ==
    Header(MinDelimiter, <<>>, MinDelimiter) \o <<Text>>
        \o (IF piece.cmd_blank THEN <<Blank>> ELSE <<>>)
        \o <<Dash(MinDelimiter)>> \o piece.expected
        \o (IF piece.where THEN <<Dash(MinDelimiter), Where, Text>> ELSE <<>>)
        \o (IF piece.gap THEN <<Blank>> ELSE <<>>)

RECURSIVE FileOf(_)
FileOf(pieces) ==
    IF pieces = <<>> THEN <<>> ELSE PieceLines(Head(pieces)) \o FileOf(Tail(pieces))

\* The lines of expected blocks and of outputs: text that tells which test
\* and which of the two it belongs to.
ExpectedLines(t, n) == [j \in 1..n |-> Line("text", 10 * t + j, {})]
ActualLines(t, n) == [j \in 1..n |-> Line("text", 100 * t + j, {})]

\* What a run makes of test t of the file: it passes (printing its expected
\* block), it is skipped, or it fails with an output of up to two lines.
Verdicts(t, piece) ==
    {[passed |-> TRUE, actual_output |-> Some(piece.expected)],
     [passed |-> TRUE, actual_output |-> None]}
    \cup {[passed |-> FALSE, actual_output |-> Some(ActualLines(t, n))] : n \in 0..2}

\* The pieces of test t.  A where-section runs into the next header unless a
\* blank line ends it, so that a test that is followed by another one has the
\* blank line when it has a where-section.
Pieces(t, last) ==
    {p \in {Piece(cb, ExpectedLines(t, n), wh, gap) :
                cb \in BOOLEAN, n \in {0, 1, MaxBlock}, wh \in BOOLEAN, gap \in BOOLEAN} :
        (p.where /\ ~last) => p.gap}

\* A corpus file of two tests and the verdicts of a run of it.
Runs ==
    {[pieces |-> <<p1, p2>>, verdicts |-> <<v1, v2>>] :
        <<p1, v1>> \in UNION {{<<p, v>> : v \in Verdicts(1, p)} : p \in Pieces(1, FALSE)},
        <<p2, v2>> \in UNION {{<<p, v>> : v \in Verdicts(2, p)} : p \in Pieces(2, TRUE)}}

\* main 105-120: the results of the file as the run left them, with the
\* tests that parse_file returned for it.
Results(tests, verdicts) ==
    [t \in 1..Len(tests) |->
        TestResult(tests[t], verdicts[t].passed, verdicts[t].actual_output)]
ResultsOf(r) == Results(parse_content(FileOf(r.pieces)).file.tests, r.verdicts)

InitUpdate ==
    /\ NoSuites
    /\ input \in Runs
    /\ output = Pending

\* main 105-120 and update_corpus_file 10-11: the file is read and the
\* results of its tests are at hand.
ReadFile ==
    /\ output = Pending
    /\ output' = [done |-> FALSE, lines |-> FileOf(input.pieces), results |-> ResultsOf(input)]
    /\ UNCHANGED <<input, sched>>

\* update_corpus_file 13-59: one turn of the loop over the results.
UpdateTurn ==
    /\ output # Pending /\ ~output.done
    /\ output.results # <<>>
    /\ output' = [output EXCEPT !.lines = UpdateOne(output.lines, Head(output.results)),
                                !.results = Tail(output.results)]
    /\ UNCHANGED <<input, sched>>

\* update_corpus_file 62: the lines are written back.
WriteFile ==
    /\ output # Pending /\ ~output.done
    /\ output.results = <<>>
    /\ output' = [output EXCEPT !.done = TRUE]
    /\ UNCHANGED <<input, sched>>

NextUpdate == ReadFile \/ UpdateTurn \/ WriteFile

SpecUpdate == InitUpdate /\ [][NextUpdate]_vars

\* ------------------------------------------------------ claims: vocabulary

Done(s) == run[s].phase = "done"

\* The indices of the file results of a path, the commands logged for it, and
\* the TestStart events sent for it.
ResultsAt(st, path) == {i \in 1..Len(st.file_results) : st.file_results[i].file_path = path}
CommandsAt(st, path) == {i \in 1..Len(st.log) : st.log[i].kind # "fixture" /\ st.log[i].path = path}
StartsAt(s, path) == {i \in 1..Len(sent[s]) : sent[s][i].type = "TestStart" /\ sent[s][i].file = path}

\* A file result that records a failure: a parse error or a failed test.
Failed(fr) == fr.parse_error \/ \E j \in 1..Len(fr.results) : ~fr.results[j].passed

\* The setup file was run and failed.
SetupFailed(st) == \E i \in ResultsAt(st, SetupPath) : Failed(st.file_results[i])

\* Every result the suite has so far: of the finished files and of the
\* file in progress.
ResultSeqs(st) ==
    {st.file_results[i].results : i \in 1..Len(st.file_results)} \cup {st.results}

\* ---------------------------------------------------------------------- C1
\* C1: when the suite has a _setup.txt and the setup file fails (a test of it
\* fails, or it does not parse), run_suite has returned with setup_error set,
\* file_results holds the setup file's result and nothing else, no regular
\* corpus file was parsed or run, and _teardown.txt was never run.
C1_SetupFailureAborts ==
    \A s \in SuiteIds :
        (suites[s].has_setup /\ SetupFailed(run[s])) =>
            /\ Done(s)
            /\ run[s].setup_error # "none"
            /\ Len(run[s].file_results) = 1
            /\ run[s].file_results[1].file_path = SetupPath
            /\ \A i \in 1..Len(run[s].log) :
                  run[s].log[i].kind = "fixture" \/ run[s].log[i].path = SetupPath
            /\ \A i \in 1..Len(sent[s]) : sent[s][i].file = SetupPath

C1_Witness ==
    \E s \in SuiteIds :
        /\ Done(s)
        /\ suites[s].has_setup /\ suites[s].has_teardown /\ Len(suites[s].dir) >= 1
        /\ Len(run[s].file_results) = 1
        /\ \E j \in 1..Len(run[s].file_results[1].results) :
              ~run[s].file_results[1].results[j].passed
        /\ run[s].setup_error = "Setup failed"

\* ---------------------------------------------------------------------- C2
\* The teardown file was run exactly once, last, after one result for every
\* regular corpus file.
TeardownRanOnce(s) ==
    LET frs == run[s].file_results IN
    /\ Cardinality(ResultsAt(run[s], TeardownPath)) = 1
    /\ frs[Len(frs)].file_path = TeardownPath
    /\ \A n \in 1..Len(suites[s].dir) :
          Cardinality(ResultsAt(run[s], CorpusPath(n))) = 1

\* C2 as stated: a suite with a _teardown.txt whose setup did not fail (or that
\* has no setup) runs the teardown file exactly once, after every regular
\* corpus file, whatever those files' outcome.
C2_AsStated ==
    \A s \in SuiteIds :
        (Done(s) /\ suites[s].has_teardown /\ ~SetupFailed(run[s])) => TeardownRanOnce(s)

\* C2 amended: a suite with a _teardown.txt whose run_suite returned without
\* setup_error (the sandbox was created, the fixture was copied, and setup did
\* not fail or is absent) ran the teardown file exactly once, after every
\* regular corpus file, whatever those files' outcome; with setup_error set the
\* teardown file was not run.
C2_TeardownUnlessAborted ==
    \A s \in SuiteIds :
        (Done(s) /\ suites[s].has_teardown) =>
            IF run[s].setup_error = "none"
            THEN TeardownRanOnce(s)
            ELSE ResultsAt(run[s], TeardownPath) = {} /\ CommandsAt(run[s], TeardownPath) = {}

C2_Witness ==
    \E s \in SuiteIds :
        /\ Done(s) /\ suites[s].has_teardown /\ run[s].setup_error = "none"
        /\ TeardownRanOnce(s)
        /\ \E i \in 1..Len(run[s].file_results) :
              /\ run[s].file_results[i].file_path.kind = "corpus"
              /\ Failed(run[s].file_results[i])

\* ---------------------------------------------------------------------- C3
\* C3: when a %require test ran and failed, every later test of the same file
\* has a result with skipped = TRUE and reason "required test failed".
C3_RequireSkipsRest ==
    \A s \in SuiteIds : \A rs \in ResultSeqs(run[s]) :
        \A i, j \in 1..Len(rs) :
            (i < j /\ rs[i].test.require /\ ~rs[i].skipped /\ ~rs[i].passed) =>
                (rs[j].skipped /\ rs[j].skip_reason = "required test failed")

\* ---------------------------------------------------------------------- C4
\* The exit code satisfies expected_exit.
ExitSatisfies(ee, code) ==
    CASE ee.kind = "success" -> code = 0
      [] ee.kind = "code" -> code = ee.n
      [] OTHER -> code # 0

\* C4: a test that was not skipped passed iff its exit code satisfies
\* expected_exit and, when there is an expected block, the output matches too.
C4_ExitPolicy ==
    \A s \in SuiteIds : \A rs \in ResultSeqs(run[s]) : \A i \in 1..Len(rs) :
        ~rs[i].skipped =>
            (rs[i].passed <=>
                /\ ExitSatisfies(rs[i].test.expected_exit, rs[i].test.exit_code)
                /\ (rs[i].test.expected # "empty" => rs[i].test.output_ok))

\* ---------------------------------------------------------------------- C5
\* The TestStart events of setup and regular files a worker has sent.
TestsStarted(evs) ==
    Cardinality({i \in 1..Len(evs) : evs[i].type = "TestStart" /\ evs[i].file # TeardownPath})

\* C5: once the cancellation flag is set, no suite starts a further test of
\* its setup or regular files (only teardown tests still start).
C5_NoTestAfterInterrupt ==
    [][interrupted =>
          \A s \in SuiteIds : TestsStarted(sent'[s]) = TestsStarted(sent[s])]_vars

\* ---------------------------------------------------------------------- C6
\* C6: the first Ctrl-C only sets the cancellation flag and the process lives
\* on; a Ctrl-C that finds the flag set ends the process with exit code 130.
C6_TwoStepCtrlC ==
    /\ signals = 0 => ~interrupted /\ exit_code # 130
    /\ signals = 1 => interrupted /\ exit_code # 130
    /\ signals >= 2 => signals = 2 /\ interrupted /\ exit_code = 130 /\ main = "exited"

C6_Witness == signals = 2 /\ exit_code = 130

\* ---------------------------------------------------------------------- C7
\* No suite has a setup_error, no file a parse error, and every test result is
\* passed or skipped.
AllClean ==
    \A s \in SuiteIds :
        /\ run[s].setup_error = "none"
        /\ \A i \in 1..Len(run[s].file_results) :
              LET fr == run[s].file_results[i] IN
              /\ ~fr.parse_error
              /\ \A j \in 1..Len(fr.results) : fr.results[j].passed \/ fr.results[j].skipped

\* main ran to its last line (the process was not ended by Ctrl-C).
RanToEnd == main = "exited" /\ exit_code # 130

\* C7 as stated: the process exits with 0 iff everything is clean, and with 1
\* otherwise.
C7_AsStated == RanToEnd => (exit_code = IF AllClean THEN 0 ELSE 1)

\* C7 amended: provided at least one suite was discovered, the process exits
\* with 0 iff everything is clean and with 1 otherwise; when no suite is
\* discovered it exits with 1.
C7_ExitCode ==
    RanToEnd =>
        (exit_code = IF Len(suites) > 0 /\ AllClean THEN 0 ELSE 1)

C7_Witness ==
    /\ RanToEnd /\ exit_code = 1
    /\ \E s \in SuiteIds : run[s].setup_error = "none" /\ \E i \in 1..Len(run[s].file_results) :
          run[s].file_results[i].parse_error

\* ---------------------------------------------------------------------- C8
\* The place of a logged command in the suite's order: the phase, then the
\* file's path, then the test's position.
PhaseRank(e) ==
    CASE e.kind = "fixture" -> 0
      [] e.path.kind = "_setup.txt" -> 1
      [] e.path.kind = "corpus" -> 2
      [] OTHER -> 3

Before(a, b) ==
    \/ PhaseRank(a) < PhaseRank(b)
    \/ PhaseRank(a) = PhaseRank(b) /\ a.path.n < b.path.n
    \/ PhaseRank(a) = PhaseRank(b) /\ a.path.n = b.path.n /\ a.test < b.test
    \/ PhaseRank(a) = PhaseRank(b) /\ a.path.n = b.path.n /\ a.test = b.test
          /\ a.kind = "cond" /\ b.kind = "cmd"

\* C8: within one suite the fixture copy comes first, then the setup tests,
\* then the regular files in sorted path order with each file's tests in
\* declaration order, then teardown; a suite with a fixture runs no command
\* before the copy.
C8_PhaseOrder ==
    \A s \in SuiteIds :
        /\ \A i, j \in 1..Len(run[s].log) : i < j => Before(run[s].log[i], run[s].log[j])
        /\ (suites[s].has_fixture /\ run[s].log # <<>>) => run[s].log[1].kind = "fixture"

C8_Witness ==
    \E s \in SuiteIds :
        /\ Done(s)
        /\ suites[s].has_fixture /\ suites[s].dir = <<2, 1>>
        /\ \E a, b, c, d, e \in 1..Len(run[s].log) :
              /\ a < b /\ b < c /\ c < d /\ d < e
              /\ run[s].log[a].kind = "fixture"
              /\ run[s].log[b].path = SetupPath
              /\ run[s].log[c].path = CorpusPath(1)
              /\ run[s].log[d].path = CorpusPath(2)
              /\ run[s].log[e].path = TeardownPath

\* ---------------------------------------------------------------------- C9
\* The result of the k-th regular corpus file of a suite that was not aborted.
CorpusResult(s, k) ==
    run[s].file_results[k + (IF suites[s].has_setup THEN 1 ELSE 0)]

\* The tests of a file that get a result, in declaration order: all of them
\* when the file is skipped as a whole or no --pattern is given, and those
\* the pattern selects otherwise.
FileIsSkipped(file) ==
    ~file.platform_ok \/ (file.file_skip.present /\ should_skip(file.file_skip))

RECURSIVE TakenTests(_, _, _)
TakenTests(file, all, t) ==
    IF t > Len(file.tests) THEN <<>>
    ELSE (IF all \/ ~pattern \/ file.stem_matches \/ file.tests[t].name_matches
          THEN <<file.tests[t]>> ELSE <<>>) \o TakenTests(file, all, t + 1)

\* C9: in a suite that was not aborted, every regular corpus file has its
\* result, in sorted order: a file that does not parse has parse_error and no
\* test result and ran no command; every other file has one result per test
\* that is run or skipped, in declaration order, and the teardown file still
\* has its result.
C9_ParseErrorPerFile ==
    \A s \in SuiteIds :
        (Done(s) /\ run[s].setup_error = "none") =>
            /\ Len(run[s].file_results) =
                  Len(suites[s].dir) + (IF suites[s].has_setup THEN 1 ELSE 0)
                                     + (IF suites[s].has_teardown THEN 1 ELSE 0)
            /\ \A k \in 1..Len(suites[s].dir) :
                  LET fr == CorpusResult(s, k)
                      file == suites[s].content[k] IN
                  /\ fr.file_path = CorpusPath(k)
                  /\ fr.parse_error = ~file.parse_ok
                  /\ [i \in 1..Len(fr.results) |-> fr.results[i].test] =
                        TakenTests(file, FileIsSkipped(file), 1)
                  /\ Cardinality(StartsAt(s, CorpusPath(k))) = Len(fr.results)
                  /\ ~file.parse_ok => CommandsAt(run[s], CorpusPath(k)) = {}
            /\ suites[s].has_teardown => ResultsAt(run[s], TeardownPath) # {}

C9_Witness ==
    \E s \in SuiteIds :
        /\ Done(s) /\ run[s].setup_error = "none" /\ suites[s].has_teardown
        /\ Len(suites[s].dir) = 2
        /\ CorpusResult(s, 1).parse_error
        /\ Len(CorpusResult(s, 2).results) = 2
        /\ ResultsAt(run[s], TeardownPath) # {}

\* --------------------------------------------------------------------- C10
IsPrefix(a, b) == Len(a) <= Len(b) /\ a = SubSeq(b, 1, Len(a))

\* C10: in parallel mode the reporter has received the events of each suite
\* in the order in which the suite's worker sent them.
C10_PerSuiteOrder ==
    (~sequential /\ Len(suites) > 1) =>
        \A s \in SuiteIds : IsPrefix(rcvd[s], sent[s])

C10_Witness ==
    /\ ~sequential /\ Len(suites) > 1
    /\ \E s \in SuiteIds : Len(rcvd[s]) >= 1
    /\ \E i, j, k \in 1..Len(chan) :
          /\ i < j /\ j < k
          /\ chan[i].suite = chan[k].suite /\ chan[i].suite # chan[j].suite

\* --------------------------------------------------------------------- C11
\* The test of a path in a suite.
TestAt(s, path, t) ==
    (CASE path = SetupPath -> suites[s].setup
       [] path = TeardownPath -> suites[s].teardown
       [] OTHER -> suites[s].content[path.n]).tests[t]

SameTest(a, b) == a.file = b.file /\ a.test = b.test

\* The TestOutput events of a test in a stream of events.
OutputsOf(evs, e) ==
    {i \in 1..Len(evs) : evs[i].type = "TestOutput" /\ SameTest(evs[i], e)}

C12_NoSharedEnv ==
    (~sequential /\ Len(suites) > 1) =>
        \A s \in SuiteIds : \A i \in 1..Len(run[s].log) :
            run[s].log[i].kind # "fixture" =>
                \A v \in EnvNames : run[s].log[i].env[v] \in {0, s}

\* --------------------------------------------------------------------- C13
\* The tests of a path for which the suite sent a TestStart event.
StartedTests(s, path) == {sent[s][i].test : i \in StartsAt(s, path)}

\* The positions of the tests of a file that the filter selects.
Selected(file, all) ==
    {t \in 1..Len(file.tests) : all \/ file.stem_matches \/ file.tests[t].name_matches}

\* The result of the setup file and of the teardown file of a suite that was
\* not aborted.
SetupResult(s) == run[s].file_results[1]
TeardownResult(s) == run[s].file_results[Len(run[s].file_results)]

\* With a filter set, in a suite that ran to its end: the tests of every
\* regular file that get a TestStart and a result are those the filter selects
\* (every test when all(file) holds); every test of the setup and teardown
\* files gets both.
FilterApplied(all(_)) ==
    \A s \in SuiteIds :
        (pattern /\ Done(s) /\ run[s].setup_error = "none") =>
            /\ \A k \in 1..Len(suites[s].dir) :
                  LET fr == CorpusResult(s, k)
                      file == suites[s].content[k] IN
                  file.parse_ok =>
                      /\ StartedTests(s, CorpusPath(k)) = Selected(file, all(file))
                      /\ [i \in 1..Len(fr.results) |-> fr.results[i].test] =
                            TakenTests(file, all(file), 1)
            /\ (suites[s].has_setup /\ suites[s].setup.parse_ok) =>
                  /\ StartedTests(s, SetupPath) = 1..Len(suites[s].setup.tests)
                  /\ Len(SetupResult(s).results) = Len(suites[s].setup.tests)
            /\ (suites[s].has_teardown /\ suites[s].teardown.parse_ok) =>
                  /\ StartedTests(s, TeardownPath) = 1..Len(suites[s].teardown.tests)
                  /\ Len(TeardownResult(s).results) = Len(suites[s].teardown.tests)

NoFileIsSkipped(file) == FALSE

\* C13 as stated: with a filter set, a test of a regular corpus file gets a
\* TestStart event and a result iff its file stem or its name contains the
\* filter; the tests of setup and teardown always get both.
C13_AsStated == FilterApplied(NoFileIsSkipped)

\* C13 amended: with a filter set, a test of a regular corpus file that is not
\* skipped as a whole (%platform mismatch, file-level %skip that applies) gets
\* a TestStart event and a result iff its file stem or its name contains the
\* filter; in a file skipped as a whole every test gets both, whatever the
\* filter; the tests of setup and teardown always get both.
C13_Filter == FilterApplied(FileIsSkipped)

C13_Witness ==
    \E s \in SuiteIds :
        /\ pattern /\ Done(s) /\ run[s].setup_error = "none"
        /\ suites[s].has_setup /\ suites[s].has_teardown
        /\ Len(suites[s].content[1].tests) = 2
        /\ StartedTests(s, CorpusPath(1)) = {2}
        /\ Len(CorpusResult(s, 1).results) = 1
        /\ StartedTests(s, SetupPath) = {1}
        /\ StartedTests(s, TeardownPath) = {1}

\* --------------------------------------------------------------------- C14
\* The file with this path in suite s, and the results the suite has for it.
FileAt(s, path) ==
    CASE path = SetupPath -> suites[s].setup
      [] path = TeardownPath -> suites[s].teardown
      [] OTHER -> suites[s].content[path.n]

\* The reason the file gives for skipping all of its tests.
FileSkipReason(file) == IF ~file.platform_ok THEN "platform" ELSE "skipped"

\* C14: for every file result of a file whose %platform list does not include
\* the current platform or whose file-level %skip applies: no test command of
\* the file was run, every test of the file has a result with skipped and
\* passed set and the reason (platform, or the skip message), and on a platform
\* mismatch no skip condition command was run for the file either.
C14_FileSkip ==
    \A s \in SuiteIds : \A i \in 1..Len(run[s].file_results) :
        LET fr == run[s].file_results[i]
            file == FileAt(s, fr.file_path) IN
        (~fr.parse_error /\ FileIsSkipped(file)) =>
            /\ \A j \in CommandsAt(run[s], fr.file_path) : run[s].log[j].kind # "cmd"
            /\ Len(fr.results) = Len(file.tests)
            /\ \A t \in 1..Len(fr.results) :
                  /\ fr.results[t].test = file.tests[t]
                  /\ fr.results[t].skipped /\ fr.results[t].passed
                  /\ fr.results[t].skip_reason = FileSkipReason(file)
                  /\ ~fr.results[t].has_output
            /\ ~file.platform_ok => CommandsAt(run[s], fr.file_path) = {}

C14_Witness ==
    \E s \in SuiteIds : \E i \in 1..Len(run[s].file_results) :
        LET fr == run[s].file_results[i]
            file == FileAt(s, fr.file_path) IN
        /\ ~fr.parse_error
        /\ ~file.platform_ok /\ file.file_skip.condition
        /\ Len(fr.results) = 2
        /\ ~Judge(file.tests[2]) /\ fr.results[2].passed
        /\ fr.results[2].skip_reason = "platform"

\* --------------------------------------------------------------------- C15
\* The commands logged for test t of a path, by kind.
TestCommands(st, path, t, kind) ==
    {i \in CommandsAt(st, path) : st.log[i].test = t /\ st.log[i].kind = kind}

\* C15: in a file that is run (not skipped as a whole, no filter), a test with
\* a %skip directive is skipped iff the directive has no condition or its
\* condition command exits with 0; the condition command runs once iff there
\* is a condition; a skipped test's own command is not run and its result has
\* passed and skipped set and no actual output; when the condition exits
\* non-zero the test's command runs once and the result is the one of the
\* same test without %skip.
C15_TestSkip ==
    \A s \in SuiteIds : \A i \in 1..Len(run[s].file_results) :
        LET fr == run[s].file_results[i]
            file == FileAt(s, fr.file_path) IN
        (~fr.parse_error /\ ~FileIsSkipped(file) /\ ~pattern) =>
            \A t \in 1..Len(fr.results) :
                LET r == fr.results[t]
                    skip == r.test.skip IN
                skip.present =>
                    /\ r.test = file.tests[t]
                    /\ r.skipped <=> (~skip.condition \/ skip.cond_exit = 0)
                    /\ Cardinality(TestCommands(run[s], fr.file_path, t, "cond")) =
                          IF skip.condition THEN 1 ELSE 0
                    /\ r.skipped =>
                          /\ r.passed /\ ~r.has_output
                          /\ TestCommands(run[s], fr.file_path, t, "cmd") = {}
                    /\ ~r.skipped =>
                          /\ Cardinality(TestCommands(run[s], fr.file_path, t, "cmd")) = 1
                          /\ r.has_output
                          /\ r.passed = run_test([r.test EXCEPT !.skip = NoSkip]).result.passed

C15_Witness ==
    \E s \in SuiteIds : \E i \in 1..Len(run[s].file_results) :
        LET fr == run[s].file_results[i] IN
        /\ Len(fr.results) = 1
        /\ fr.results[1].test.skip = SkipIf(1)
        /\ ~fr.results[1].skipped /\ ~fr.results[1].passed
        /\ Cardinality(TestCommands(run[s], fr.file_path, 1, "cond")) = 1
        /\ Cardinality(TestCommands(run[s], fr.file_path, 1, "cmd")) = 1

\* --------------------------------------------------------------------- C16
\* C16: the sandbox directory of a suite does not exist before run_suite
\* starts; it exists in every state in which run_suite is copying the fixture
\* or running the setup file, a regular file or the teardown file, which are
\* the states its commands run from; and when run_suite has returned the
\* directory is gone: deleted after normal completion, after a failed setup and
\* after a failed fixture copy, and never created when its creation failed.
C16_SandboxLifetime ==
    \A s \in SuiteIds :
        LET st == run[s] IN
        /\ st.phase = "idle" => st.sandbox = "absent" /\ st.log = <<>>
        /\ st.phase \in {"fixture", "setup", "files", "teardown"} => st.sandbox = "exists"
        /\ st.phase = "done" =>
              IF st.setup_error = "Failed to create temp dir"
              THEN st.sandbox = "absent" /\ st.log = <<>>
              ELSE st.sandbox = "deleted"

C16_Witness ==
    \E s \in SuiteIds :
        /\ Done(s) /\ run[s].sandbox = "deleted" /\ run[s].setup_error = "Setup failed"
        /\ suites[s].has_fixture
        /\ \E i \in 1..Len(run[s].log) : run[s].log[i].kind = "cmd"

\* --------------------------------------------------------------------- C17
\* The text with CRLF converted to LF.
Normalized(combined) == ReplaceCRLF(combined)

\* The text without one trailing newline, if it has one.
WithoutOneNewline(str) == IF str # <<>> /\ Last(str) = LF THEN Front(str) ELSE str

\* The text is the expected text followed by newlines only.
ExpectedPlusNewlines(str, expected) ==
    /\ Len(str) >= Len(expected)
    /\ SubSeq(str, 1, Len(expected)) = expected
    /\ \A i \in (Len(expected) + 1)..Len(str) : str[i] = LF

\* C17 as stated: the output check succeeds iff the output, after converting
\* CRLF to LF and removing exactly one trailing newline, equals the expected
\* text.
C17_AsStated ==
    output.done =>
        (output.passed <=> WithoutOneNewline(Normalized(input.combined)) = input.expected)

\* C17 amended: the output check (output not streamed) succeeds iff the output,
\* after converting CRLF to LF and removing all trailing newlines, equals the
\* expected text, that is iff the converted output is the expected text
\* followed by any number of newlines.
C17_OutputEquality ==
    output.done =>
        (output.passed <=> ExpectedPlusNewlines(Normalized(input.combined), input.expected))

C17_Witness ==
    /\ output.done
    /\ input.combined = <<"a", CR, LF, LF>>
    /\ input.expected = <<"a">>
    /\ output.passed

\* --------------------------------------------------------------------- C18
\* C18: every test of a CorpusFile that parse_content returns was delimited
\* with the delimiter length of the first test.
C18_OneDelimiterLength ==
    (output.done /\ output.ok) =>
        \A i \in 1..Len(output.file.tests) :
            output.file.tests[i].delimiter_len = output.file.tests[1].delimiter_len

\* --------------------------------------------------------------------- C19
\* The lines of a document that belong to the file level: everything before
\* the first header line.
FileLevel(doc) ==
    {i \in 1..Len(doc) : \A j \in 1..i : ~(doc[j].k = "=" /\ doc[j].n >= MinDelimiter)}

\* The document is file directives and blank lines followed by a test header
\* whose directive lines hold a %platform or a %shell.
FileDirectiveInHeader(doc) ==
    \E h \in 1..Len(doc) : \E i \in (h + 2)..Len(doc) :
        /\ \A j \in 1..(h - 1) : doc[j].k \in {"blank", "%skip", "%shell", "%platform"}
        /\ doc[h].k = "=" /\ doc[h].n >= MinDelimiter
        /\ \A j \in (h + 2)..(i - 1) : doc[j].k \in {"%skip", "%require", "%exit"}
        /\ doc[i].k \in {"%platform", "%shell"}

\* The document has an %exit or a %require line at file level.
TestDirectiveAtFileLevel(doc) ==
    \E i \in FileLevel(doc) : doc[i].k \in {"%exit", "%require"}

\* C19: a document with %platform or %shell inside a test header, or with
\* %exit or %require at file level, makes parse_content return a parse error.
C19_DirectivePlacement ==
    (output.done /\ (FileDirectiveInHeader(input) \/ TestDirectiveAtFileLevel(input))) =>
        ~output.ok

\* --------------------------------------------------------------------- C20
UnixPlatforms == {"unix", "macos", "linux"}

\* C20 as stated: in every CorpusFile that parse_content returns, file_shell
\* cmd comes with no unix platform (unix, macos, linux) in file_platform, and
\* file_shell sh or zsh comes without windows in file_platform.
C20_AsStated ==
    (output.done /\ output.ok) =>
        /\ "cmd" \in output.file.file_shell =>
              output.file.file_platform \cap UnixPlatforms = {}
        /\ output.file.file_shell \cap {"sh", "zsh"} # {} =>
              "windows" \notin output.file.file_platform

\* C20 amended: in every CorpusFile that parse_content returns, file_shell cmd
\* (or powershell) comes with a file_platform that is empty, names windows, or
\* names no unix platform; file_shell sh or zsh comes with a file_platform
\* that is empty, names a unix platform, or does not name windows.  A file
\* whose %shell and %platform violate this is a parse error.
C20_ShellPlatform ==
    LET Compatible(shell, platforms) ==
            /\ shell \in {"cmd", "powershell"} =>
                  ("windows" \in platforms \/ platforms \cap UnixPlatforms = {})
            /\ shell \in {"sh", "zsh"} =>
                  (platforms \cap UnixPlatforms # {} \/ "windows" \notin platforms)
        Declared(doc, k) == UNION {doc[i].arg : i \in {j \in FileLevel(doc) : doc[j].k = k}} IN
    output.done =>
        /\ output.ok => \A shell \in output.file.file_shell :
                            Compatible(shell, output.file.file_platform)
        /\ (\E shell \in Declared(input, "%shell") :
                ~Compatible(shell, Declared(input, "%platform"))) => ~output.ok

C20_Witness ==
    /\ output.done /\ output.ok
    /\ output.file.file_shell = {"cmd"}
    /\ output.file.file_platform = {"windows", "linux"}
    /\ Len(output.file.tests) = 1

\* --------------------------------------------------------------------- C27
\* What corpus_file leaves of a document: the lines it did not parse.
Unparsed(doc) == skip_blank_lines(corpus_file(ParseState(doc)).state.input)

\* C27: parse_content returns Ok only if the whole input was consumed; text
\* that is not a file directive, a blank line or a well-formed test is a
\* parse error and never shortens the list of tests.
C27_WholeInput ==
    (output.done /\ output.ok) => Unparsed(input) = <<>>

\* --------------------------------------------------------------------- C28
\* The 1-based line numbers of the header lines that open the tests of a
\* document, in the order corpus_file parses them.
RECURSIVE OpeningLines(_, _, _)
OpeningLines(doc, state, acc) ==
    LET peeked == skip_blank_lines(state.input) IN
    IF peeked = <<>> \/ peeked[1].k # "=" \/ peeked[1].n < MinDelimiter
    THEN acc
    ELSE LET tc == test_case(state) IN
         IF tc.ok
         THEN OpeningLines(doc, tc.state, Append(acc, Len(doc) - Len(peeked) + 1))
         ELSE acc

HeaderLinesOf(doc) ==
    LET dirs == FileDirectives(skip_blank_lines(doc),
                               [file_skip |-> FALSE, file_shell |-> {}, file_platform |-> {},
                                count |-> 0, rest |-> <<>>]) IN
    OpeningLines(doc, [ParseState(doc) EXCEPT !.input = dirs.rest], <<>>)

\* C28: every parsed test has as start_line the 1-based line number of its
\* opening header line in the file, and start_line < end_line.
C28_StartLine ==
    (output.done /\ output.ok) =>
        \A i \in 1..Len(output.file.tests) :
            /\ output.file.tests[i].start_line = HeaderLinesOf(input)[i]
            /\ output.file.tests[i].start_line < output.file.tests[i].end_line

C24_SameOutput ==
    output.done =>
        /\ output.streamed.combined = output.collected.combined
        /\ output.streamed.exit_code = output.collected.exit_code
        /\ join(output.streamed.on_line, <<LF>>) = output.collected.combined

\* --------------------------------------------------------------------- C25
\* C25: Matcher::matches evaluates constraints only after the regex matched,
\* in declaration order, and stops at the first constraint that is false
\* (ConstraintNotSatisfied) or that fails to evaluate (ConstraintFailed), so
\* that no later constraint is evaluated; a regex non-match returns
\* matched = false with no error and without evaluating any constraint.
C25_ConstraintOrder ==
    output # Pending =>
        LET ev == output.evaluated
            cs == input.constraints IN
        /\ ev # <<>> => input.regex_ok /\ input.captures
        /\ Len(ev) <= Len(cs)
        /\ \A j \in 1..Len(ev) : ev[j] = j
        /\ \A j \in 1..(Len(ev) - 1) : cs[j] = "true"
        /\ output.result = "ConstraintNotSatisfied" =>
              output.at = Len(ev) /\ cs[Len(ev)] = "false"
        /\ output.result = "ConstraintFailed" =>
              output.at = Len(ev) /\ cs[Len(ev)] = "error"
        /\ output.result = "matched" =>
              Len(ev) = Len(cs) /\ \A j \in 1..Len(cs) : cs[j] = "true"
        /\ (output.done /\ input.regex_ok /\ ~input.captures) =>
              output.result = "unmatched" /\ ev = <<>>
        /\ (output.done /\ input.regex_ok /\ input.captures /\ input.extract_ok
               /\ \E j \in 1..Len(cs) : cs[j] # "true") =>
              output.result \in {"ConstraintNotSatisfied", "ConstraintFailed"}

C25_Witness ==
    /\ output # Pending /\ output.done
    /\ input.constraints = <<"true", "false", "error">>
    /\ output.result = "ConstraintNotSatisfied" /\ output.at = 2
    /\ output.evaluated = <<1, 2>>

\* --------------------------------------------------------------------- C26
\* The sub-expressions under the given path that were evaluated.
EvaluatedUnder(trace, path) ==
    {i \in 1..Len(trace) : Len(trace[i]) >= Len(path) /\ SubSeq(trace[i], 1, Len(path)) = path}

\* The value of an expression evaluated on its own: "error" for an Err.
ValueOf(expr) == evaluate(expr, <<>>).v

\* C26: 'a and b' is false without evaluating b when a is false, and 'a or b'
\* is true without evaluating b when a is true, so that an error in b is not
\* raised; 'p forall x in S' is false at the first item for which p is false,
\* without evaluating p on later items, and true for an empty S.
C26_ShortCircuit ==
    output.done =>
        LET r == output.result IN
        /\ (input.op = "and" /\ ValueOf(input.left) = "false") =>
              ~r.err /\ r.v = "false" /\ EvaluatedUnder(r.trace, <<2>>) = {}
        /\ (input.op = "or" /\ ValueOf(input.left) = "true") =>
              ~r.err /\ r.v = "true" /\ EvaluatedUnder(r.trace, <<2>>) = {}
        /\ (input.op = "forall" /\ input.iterable = "array") =>
              /\ input.predicates = <<>> => ~r.err /\ r.v = "true"
              /\ \A k \in 1..Len(input.predicates) :
                    (/\ ValueOf(input.predicates[k]) = "false"
                     /\ \A j \in 1..(k - 1) : ValueOf(input.predicates[j]) = "true") =>
                        /\ ~r.err /\ r.v = "false"
                        /\ \A j \in (k + 1)..Len(input.predicates) :
                              EvaluatedUnder(r.trace, <<j>>) = {}

C26_Witness ==
    /\ output.done
    /\ input = BinaryOp("and", BinaryOp("or", Bool(TRUE), Var),
                         ForAll("array", <<Bool(FALSE), Var>>))
    /\ ~output.result.err /\ output.result.v = "false"
    /\ output.result.trace = <<<<>>, <<1>>, <<1, 1>>, <<2>>, <<2, 1>>>>

\* --------------------------------------------------------------------- C21
\* The name matches [A-Za-z_][A-Za-z0-9_]*.
IsIdentifier(name) ==
    /\ name # <<>>
    /\ name[1] \in Letters
    /\ \A i \in 1..Len(name) : name[i] \in Letters \cup Digits

\* The names of the placeholders of an expected block: what stands between
\* "{{" and "}}" without a brace in it, up to the colon, without the spaces
\* around it.
NamesIn(expected) ==
    {PlaceholderName(SubSeq(expected, i + 2, j - 1)) :
        <<i, j>> \in {ij \in (1..Len(expected)) \X (1..Len(expected)) :
                        /\ ij[1] + 1 < ij[2] /\ ij[2] < Len(expected)
                        /\ SubSeq(expected, ij[1], ij[1] + 1) = <<"{", "{">>
                        /\ SubSeq(expected, ij[2], ij[2] + 1) = <<"}", "}">>
                        /\ \A k \in (ij[1] + 2)..(ij[2] - 1) : expected[k] \notin {"{", "}"}}}

\* C21: every variable declared in a successfully parsed test has a name that
\* is an identifier and not a reserved keyword; a placeholder whose name is a
\* reserved keyword or is not an identifier makes the parse fail.
C21_VariableNames ==
    output.done =>
        /\ output.ok => \A i \in 1..Len(output.variables) :
                            /\ IsIdentifier(output.variables[i])
                            /\ ~is_reserved_keyword(output.variables[i])
        /\ (\E name \in NamesIn(input) :
                name # <<>> /\ (is_reserved_keyword(name) \/ ~IsIdentifier(name))) => ~output.ok

\* --------------------------------------------------------------------- C22
\* A failed test that produced output.
ToUpdate(v) == ~v.passed /\ v.actual_output.some

\* The file with the expected blocks of the given tests replaced by the
\* tests' actual output, and every other line as it was.
Replaced(r, ts) ==
    FileOf([t \in 1..Len(r.pieces) |->
              IF t \in ts /\ ToUpdate(r.verdicts[t])
              THEN [r.pieces[t] EXCEPT !.expected = r.verdicts[t].actual_output.lines]
              ELSE r.pieces[t]])

\* C22: update_corpus_file replaces the expected block of each failed test
\* that produced output by the actual output and leaves every other line of
\* the file unchanged.
C22_OnlyExpectedBlocks ==
    output.done => output.lines = Replaced(input, 1..Len(input.pieces))

\* --------------------------------------------------------------------- C29
\* A file's lines without the blank ones.
RECURSIVE NoBlanks(_)
NoBlanks(lines) ==
    IF lines = <<>> THEN <<>>
    ELSE IF Head(lines).k = "blank" THEN NoBlanks(Tail(lines))
    ELSE <<Head(lines)>> \o NoBlanks(Tail(lines))

\* Updating the file for test t alone replaces the expected block of t (up
\* to blank lines).
AloneIsRight(r, t) ==
    NoBlanks(update_corpus_file(FileOf(r.pieces), <<ResultsOf(r)[t]>>))
        = NoBlanks(Replaced(r, {t}))

\* C29: when several failed tests of a file are updated together, each
\* test's own expected block is replaced by its actual output, as it is when
\* the test is updated alone (up to blank lines).
C29_OwnBlock ==
    (/\ output.done
     /\ \A t \in 1..Len(input.pieces) : ToUpdate(input.verdicts[t]) /\ AloneIsRight(input, t)) =>
        NoBlanks(output.lines) = NoBlanks(Replaced(input, 1..Len(input.pieces)))

\* --------------------------------------------------------------------- C30
\* C30: once every worker has returned and main has dropped its sender, no
\* sender clone is alive; the reporter has received every event every worker
\* sent when main goes on after join; and the reporter always terminates: from
\* the drop of the sender on, its loop ends (unless Ctrl-C ends the process),
\* in sequential and in parallel mode.
C30_ReporterTerminates ==
    /\ [](main = "joining" => Senders = {})
    /\ []((main = "exited" /\ exit_code \in {0, 1} /\ Len(suites) > 0) =>
            (reporter = "finished" /\ chan = <<>> /\ \A s \in SuiteIds : rcvd[s] = sent[s]))
    /\ (main = "joining") ~> (reporter = "finished" \/ ~Alive)

C30_Witness ==
    /\ main = "exited" /\ exit_code \in {0, 1}
    /\ ~sequential /\ Len(suites) > 1 /\ stream_output
    /\ reporter = "finished"
    /\ \A s \in SuiteIds :
          /\ rcvd[s] = sent[s]
          /\ \E i \in 1..Len(rcvd[s]) : rcvd[s][i].type = "TestOutput"
====
